---- MODULE Spec2Model ----
(***************************************************************************)
(* A model of the Bitcoin graph explorer's address expansion pipeline.     *)
(*                                                                         *)
(* Server side (app/api/blockchain/route.ts): the GET handler with its     *)
(* fixed-window rate limiter, its TTL cache, the throttled dispatcher      *)
(* queue and the retry loop of fetchFromBlockchain.                        *)
(*                                                                         *)
(* Client side (hooks/useBlockchainData.ts, store/graphStore.ts): the      *)
(* graph store and loadInitialAddress / expandNode / loadMoreTransactions. *)
(*                                                                         *)
(* JavaScript runs one task at a time: a handler runs without interruption *)
(* from one await to the next, so each action below is the code between    *)
(* two suspension points.                                                  *)
(***************************************************************************)
EXTENDS Integers, Sequences, FiniteSets, TLC

VARIABLES
    now,               \* Date.now(), in milliseconds
    rateLimitMap,      \* route.ts: Map ip -> {count, resetTime}
    cache,             \* route.ts: Map cacheKey -> {data, timestamp}
    lastRequestTime,   \* route.ts: start time of the last upstream call
    requestQueue,      \* route.ts: queued executeRequest closures (by handler)
    isProcessingQueue, \* route.ts: the dispatcher's busy flag
    handlers,          \* the suspended GET invocations: where each one waits
    lastResponse,      \* the response the GET handler returned last
    allowedLog,        \* the times at which checkRateLimit allowed the observed client
    graphNodes,        \* graphStore.ts: graphData.nodes
    graphLinks,        \* graphStore.ts: graphData.links
    selectedNode,      \* graphStore.ts: selectedNode
    loadingNodes,      \* graphStore.ts: loadingNodes
    isLoading,         \* useBlockchainData.ts: isLoading of each hook instance
    error,             \* useBlockchainData.ts: error of each hook instance
    calls,             \* the loadAddressData invocations awaiting their fetch
    fetchCount,        \* the fetchAddressData calls issued so far
    isFetchingBalance, \* AddressDetails: isFetchingBalance
    balanceSnapshot,   \* AddressDetails: the selectedNode its balance fetch closed over
    countdown          \* SearchBar: countdown (0 stands for null)

gatewayVars == <<now, rateLimitMap, cache, lastRequestTime, requestQueue,
                 isProcessingQueue, handlers, lastResponse, allowedLog>>

storeVars == <<graphNodes, graphLinks, selectedNode, loadingNodes>>
panelVars == <<isFetchingBalance, balanceSnapshot>>
clientVars == <<storeVars, isLoading, error, calls, fetchCount, panelVars, countdown>>

vars == <<gatewayVars, clientVars>>

(***************************************************************************)
(* Program constants (route.ts, lines 45-48 and 168).                      *)
(***************************************************************************)
CACHE_TTL == 5 * 60 * 1000
RATE_LIMIT_WINDOW == 60 * 1000
MAX_REQUESTS_PER_WINDOW == 10
REQUEST_DELAY == 1500
RETRIES == 3
DEFAULT_RETRY_AFTER == 60

(***************************************************************************)
(* Bounds of the model.                                                    *)
(***************************************************************************)
MaxHandlers == 2          \* GET invocations that can be suspended at once
MaxCalls == 2             \* loadAddressData invocations awaiting their fetch
MaxLevel == 0             \* the deepest level a node is expanded from
MaxFetches == 3           \* fetchAddressData calls issued in one run
MaxQueued == 3            \* GET invocations suspended at once in the queue scenario

Handlers == 1 .. MaxHandlers

\* Date.now() when the module is loaded: far beyond every delay of the program.
Epoch == 2 * CACHE_TTL

\* The query strings the handler receives: address (the empty string when the
\* parameter is missing), limit and offset.
Address1 == "1A1zP1eP5QGefi2DMPTfTL5SLmv7DivfNa"
Page(offset) == [address |-> Address1, limit |-> 10, offset |-> offset]
NoAddress == [address |-> "", limit |-> 50, offset |-> 0]

\* What one attempt of fetch() can end in: a payload, the provider's 429
\* (retryAfter 0: the header is absent), or any other failure.
Ok(data) == [kind |-> "ok", data |-> data, retryAfter |-> 0]
TooMany(retryAfter) == [kind |-> "429", data |-> "null", retryAfter |-> retryAfter]
Failure == [kind |-> "error", data |-> "null", retryAfter |-> 0]

(***************************************************************************)
(* Three scenarios of the same handler.  Each draws the clients, the       *)
(* queries, the provider's answers and the clock readings (offsets from    *)
(* Epoch) from the sets its properties are about.                          *)
(***************************************************************************)
\* The rate limiter: two clients, clock readings around the end of a window.
RateIps == {"10.0.0.1", "10.0.0.2"}
RateQueries == {Page(0), NoAddress}
RateOutcomes == {Ok("snapshot1"), TooMany(0), Failure}
RateClock == {RATE_LIMIT_WINDOW, RATE_LIMIT_WINDOW + 1}

\* The dispatcher: clock readings at which the spacing and the retry delays
\* (1000 and 2000 ms) of successive attempts have elapsed.
DispatchIps == {"10.0.0.1"}
DispatchQueries == {Page(0), Page(10), NoAddress}
DispatchOutcomes == {Ok("snapshot1"), TooMany(1), TooMany(0), Failure}
DispatchClock == {1000, REQUEST_DELAY, 2 * REQUEST_DELAY, 2 * REQUEST_DELAY + 2000}

\* The cache: two keys, two payloads, clock readings around the expiry of
\* entries stored at Epoch and one spacing later.
CacheIps == {"10.0.0.1"}
CacheQueries == {Page(0), Page(10)}
CacheOutcomes == {Ok("snapshot1"), Ok("snapshot2"), Failure}
CacheClock ==
    {REQUEST_DELAY, CACHE_TTL, CACHE_TTL + 1, CACHE_TTL + REQUEST_DELAY + 1}

\* Rejections: a query without address, and a client refused at a full
\* window while an expired entry and a fresh one are in the cache.
RejectIps == {"10.0.0.1"}
RejectQueries == {Page(0), Page(10), NoAddress}
RejectOutcomes == {Ok("snapshot1"), Failure}
RejectClock == {REQUEST_DELAY, CACHE_TTL + 1}

\* Cache keys: triples that differ in one component, among them a negative
\* limit (parseInt("-1") is -1) and an address that ends in "-".
Query(address, limit, offset) ==
    [address |-> address, limit |-> limit, offset |-> offset]
KeyIps == {"10.0.0.1"}
KeyQueries == {Query(Address1, 1, 2), Query(Address1, 1, 12),
               Query(Address1, -1, 2), Query(Address1 \o "-", 1, 2)}
KeyOutcomes == {Ok("snapshot1"), Failure}
KeyClock == {REQUEST_DELAY, CACHE_TTL + 1}

\* Progress of the queue: time passes only up to the deadline of the timer a
\* call is waiting for, so every timer can fire.
LiveIps == {"10.0.0.1"}
LiveQueries == {Page(0), Page(10)}
LiveOutcomes == {Ok("snapshot1"), Failure}

Null == "null"

\* A response: the HTTP status, the body's error, cached, payload and
\* retryAfter, and the cache key of the request it answers ("" before the
\* handler has built the key).
NoResponse ==
    [status |-> 0, error |-> "", cached |-> FALSE, data |-> Null, retryAfter |-> 0,
     key |-> ""]

IdleHandler == [pc |-> "idle", key |-> "", attempt |-> 0, deadline |-> 0]

\* Map.set and Map.delete on a function whose domain is the set of keys.
MapSet(m, k, v) == [x \in DOMAIN m \cup {k} |-> IF x = k THEN v ELSE m[x]]
MapDelete(m, k) == [x \in DOMAIN m \ {k} |-> m[x]]

\* Math.ceil(x / n) for an integer x and n > 0.
Ceil(x, n) == -((-x) \div n)

(***************************************************************************)
(* checkRateLimit(ip): the decision, the retryAfter and the map afterwards. *)
(***************************************************************************)
\* A variant that compares with > where the code compares with >=.
CheckRateLimitOffByOne(map, ip, t) ==
    IF ip \notin DOMAIN map \/ t > map[ip].resetTime
    THEN [allowed |-> TRUE, retryAfter |-> 0,
          map |-> MapSet(map, ip, [count |-> 1, resetTime |-> t + RATE_LIMIT_WINDOW])]
    ELSE IF map[ip].count > MAX_REQUESTS_PER_WINDOW
    THEN [allowed |-> FALSE,
          retryAfter |-> Ceil(map[ip].resetTime - t, 1000),
          map |-> map]
    ELSE [allowed |-> TRUE, retryAfter |-> 0,
          map |-> [map EXCEPT ![ip].count = @ + 1]]

\* A variant whose window slides: every allowed check moves the reset time.
CheckRateLimitSlidingWindow(map, ip, t) ==
    IF ip \notin DOMAIN map \/ t > map[ip].resetTime
    THEN [allowed |-> TRUE, retryAfter |-> 0,
          map |-> MapSet(map, ip, [count |-> 1, resetTime |-> t + RATE_LIMIT_WINDOW])]
    ELSE IF map[ip].count >= MAX_REQUESTS_PER_WINDOW
    THEN [allowed |-> FALSE,
          retryAfter |-> Ceil(map[ip].resetTime - t, 1000),
          map |-> map]
    ELSE [allowed |-> TRUE, retryAfter |-> 0,
          map |-> [map EXCEPT ![ip] = [count |-> @.count + 1,
                                       resetTime |-> t + RATE_LIMIT_WINDOW]]]

\* A variant whose window is over at its reset time.
CheckRateLimitClosesAtResetTime(map, ip, t) ==
    IF ip \notin DOMAIN map \/ t >= map[ip].resetTime
    THEN [allowed |-> TRUE, retryAfter |-> 0,
          map |-> MapSet(map, ip, [count |-> 1, resetTime |-> t + RATE_LIMIT_WINDOW])]
    ELSE IF map[ip].count >= MAX_REQUESTS_PER_WINDOW
    THEN [allowed |-> FALSE,
          retryAfter |-> Ceil(map[ip].resetTime - t, 1000),
          map |-> map]
    ELSE [allowed |-> TRUE, retryAfter |-> 0,
          map |-> [map EXCEPT ![ip].count = @ + 1]]

CheckRateLimit(map, ip, t) ==
    IF ip \notin DOMAIN map \/ t > map[ip].resetTime
    THEN [allowed |-> TRUE, retryAfter |-> 0,
          map |-> MapSet(map, ip, [count |-> 1, resetTime |-> t + RATE_LIMIT_WINDOW])]
    ELSE IF map[ip].count >= MAX_REQUESTS_PER_WINDOW
    THEN [allowed |-> FALSE,
          retryAfter |-> Ceil(map[ip].resetTime - t, 1000),
          map |-> map]
    ELSE [allowed |-> TRUE, retryAfter |-> 0,
          map |-> [map EXCEPT ![ip].count = @ + 1]]

(***************************************************************************)
(* The cache: key construction, getCachedData and setCachedData.           *)
(***************************************************************************)
CacheKey(address, limit, offset) ==
    address \o "-" \o ToString(limit) \o "-" \o ToString(offset)

\* A variant that reports an expired entry absent but leaves it in the map.
GetCachedDataKeepsExpired(c, key, t) ==
    IF key \notin DOMAIN c
    THEN [data |-> "null", cache |-> c]
    ELSE IF t - c[key].timestamp > CACHE_TTL
    THEN [data |-> "null", cache |-> c]
    ELSE [data |-> c[key].data, cache |-> c]

GetCachedData(c, key, t) ==
    IF key \notin DOMAIN c
    THEN [data |-> Null, cache |-> c]
    ELSE IF t - c[key].timestamp > CACHE_TTL
    THEN [data |-> Null, cache |-> MapDelete(c, key)]
    ELSE [data |-> c[key].data, cache |-> c]

SetCachedData(c, key, data, t) ==
    MapSet(c, key, [data |-> data, timestamp |-> t])

(***************************************************************************)
(* The dispatcher.  d is the dispatcher's state: the queue, the busy flag,  *)
(* lastRequestTime and the handlers (whose suspension points it moves).    *)
(***************************************************************************)
Dispatcher ==
    [queue |-> requestQueue, processing |-> isProcessingQueue,
     last |-> lastRequestTime, hs |-> handlers]

\* A variant that starts the call at once, without the spacing timer.
ExecuteRequestNoSpacing(d, h, t) ==
    [d EXCEPT !.last = t, !.hs[h].pc = "fetching", !.hs[h].attempt = 0]

\* executeRequest up to its first await: either the spacing timer or the
\* first attempt of requestFn.
ExecuteRequest(d, h, t) ==
    LET timeSinceLastRequest == t - d.last
    IN  IF timeSinceLastRequest < REQUEST_DELAY
        THEN [d EXCEPT !.hs[h].pc = "spacing",
                       !.hs[h].deadline = t + (REQUEST_DELAY - timeSinceLastRequest)]
        ELSE [d EXCEPT !.last = t,
                       !.hs[h].pc = "fetching",
                       !.hs[h].attempt = 0]

\* A variant that takes the call pushed last.
ProcessQueueTakesLast(d, t) ==
    IF Len(d.queue) = 0
    THEN [d EXCEPT !.processing = FALSE]
    ELSE ExecuteRequest([d EXCEPT !.processing = TRUE,
                                  !.queue = SubSeq(d.queue, 1, Len(d.queue) - 1)],
                        d.queue[Len(d.queue)], t)

ProcessQueue(d, t) ==
    IF Len(d.queue) = 0
    THEN [d EXCEPT !.processing = FALSE]
    ELSE ExecuteRequest([d EXCEPT !.processing = TRUE, !.queue = Tail(d.queue)],
                        Head(d.queue), t)

\* A variant that starts the queue whether or not a call is in flight.
ThrottledRequestIgnoresFlag(d, h, t) ==
    ProcessQueue([d EXCEPT !.queue = Append(d.queue, h), !.hs[h].pc = "queued"], t)

ThrottledRequest(d, h, t) ==
    LET pushed == [d EXCEPT !.queue = Append(d.queue, h), !.hs[h].pc = "queued"]
    IN  IF ~pushed.processing THEN ProcessQueue(pushed, t) ELSE pushed

SetDispatcher(d) ==
    /\ requestQueue' = d.queue
    /\ isProcessingQueue' = d.processing
    /\ lastRequestTime' = d.last
    /\ handlers' = d.hs

(***************************************************************************)
(* GET, from its entry to its first await (or to its response).  A GET     *)
(* that has to wait for the dispatcher takes the first free handler slot.  *)
(***************************************************************************)
\* The log of the observed client: GET notes the time of every request of
\* that client that checkRateLimit allows.
ObservedIp == "10.0.0.9"
Logged(ip, q) ==
    IF ip = ObservedIp /\ q.address # "" /\ CheckRateLimit(rateLimitMap, ip, now).allowed
    THEN Append(allowedLog, now)
    ELSE allowedLog

FreeHandlers == {h \in DOMAIN handlers : handlers[h].pc = "idle"}
FirstFree == CHOOSE h \in FreeHandlers : \A g \in FreeHandlers : h <= g

Answer(resp) ==
    /\ lastResponse' = resp
    /\ UNCHANGED <<lastRequestTime, requestQueue, isProcessingQueue, handlers>>

\* A variant that looks the key up before it asks the limiter.
GETLooksUpBeforeLimiter(ip, q) ==
    /\ UNCHANGED <<now, clientVars>>
    /\ allowedLog' = Logged(ip, q)
    /\ IF q.address = ""
       THEN /\ Answer([NoResponse EXCEPT !.status = 400,
                                         !.error = "Address parameter is required"])
            /\ UNCHANGED <<rateLimitMap, cache>>
       ELSE LET rateLimitCheck == CheckRateLimit(rateLimitMap, ip, now)
                cacheKey == CacheKey(q.address, q.limit, q.offset)
                cached == GetCachedData(cache, cacheKey, now)
            IN  IF ~rateLimitCheck.allowed
                THEN /\ rateLimitMap' = rateLimitCheck.map
                     /\ Answer([NoResponse EXCEPT
                                  !.status = 429,
                                  !.error = "Too many requests. Please slow down.",
                                  !.retryAfter = rateLimitCheck.retryAfter])
                     /\ cache' = cached.cache
                ELSE IF cached.data # Null
                THEN /\ rateLimitMap' = rateLimitCheck.map
                     /\ cache' = cached.cache
                     /\ Answer([NoResponse EXCEPT !.status = 200,
                                                  !.cached = TRUE,
                                                  !.data = cached.data,
                                                  !.key = cacheKey])
                ELSE /\ FreeHandlers # {}
                     /\ rateLimitMap' = rateLimitCheck.map
                     /\ cache' = cached.cache
                     /\ SetDispatcher(ThrottledRequest(
                            [Dispatcher EXCEPT !.hs[FirstFree].key = cacheKey],
                            FirstFree, now))
                     /\ UNCHANGED lastResponse

\* A variant that handles a request only when the dispatcher is not busy.
GETWaitsForDispatcher(ip, q) ==
    /\ ~isProcessingQueue
    /\ UNCHANGED <<now, clientVars>>
    /\ allowedLog' = Logged(ip, q)
    /\ IF q.address = ""
       THEN /\ Answer([NoResponse EXCEPT !.status = 400,
                                         !.error = "Address parameter is required"])
            /\ UNCHANGED <<rateLimitMap, cache>>
       ELSE LET rateLimitCheck == CheckRateLimit(rateLimitMap, ip, now)
                cacheKey == CacheKey(q.address, q.limit, q.offset)
                cached == GetCachedData(cache, cacheKey, now)
            IN  IF ~rateLimitCheck.allowed
                THEN /\ rateLimitMap' = rateLimitCheck.map
                     /\ Answer([NoResponse EXCEPT
                                  !.status = 429,
                                  !.error = "Too many requests. Please slow down.",
                                  !.retryAfter = rateLimitCheck.retryAfter])
                     /\ UNCHANGED cache
                ELSE IF cached.data # Null
                THEN /\ rateLimitMap' = rateLimitCheck.map
                     /\ cache' = cached.cache
                     /\ Answer([NoResponse EXCEPT !.status = 200,
                                                  !.cached = TRUE,
                                                  !.data = cached.data,
                                                  !.key = cacheKey])
                ELSE /\ FreeHandlers # {}
                     /\ rateLimitMap' = rateLimitCheck.map
                     /\ cache' = cached.cache
                     /\ SetDispatcher(ThrottledRequest(
                            [Dispatcher EXCEPT !.hs[FirstFree].key = cacheKey],
                            FirstFree, now))
                     /\ UNCHANGED lastResponse

GET(ip, q) ==
    /\ UNCHANGED <<now, clientVars>>
    /\ allowedLog' = Logged(ip, q)
    /\ IF q.address = ""
       THEN /\ Answer([NoResponse EXCEPT !.status = 400,
                                         !.error = "Address parameter is required"])
            /\ UNCHANGED <<rateLimitMap, cache>>
       ELSE LET rateLimitCheck == CheckRateLimit(rateLimitMap, ip, now)
                cacheKey == CacheKey(q.address, q.limit, q.offset)
                cached == GetCachedData(cache, cacheKey, now)
            IN  IF ~rateLimitCheck.allowed
                THEN /\ rateLimitMap' = rateLimitCheck.map
                     /\ Answer([NoResponse EXCEPT
                                  !.status = 429,
                                  !.error = "Too many requests. Please slow down.",
                                  !.retryAfter = rateLimitCheck.retryAfter])
                     /\ UNCHANGED cache
                ELSE IF cached.data # Null
                THEN /\ rateLimitMap' = rateLimitCheck.map
                     /\ cache' = cached.cache
                     /\ Answer([NoResponse EXCEPT !.status = 200,
                                                  !.cached = TRUE,
                                                  !.data = cached.data,
                                                  !.key = cacheKey])
                ELSE /\ FreeHandlers # {}
                     /\ rateLimitMap' = rateLimitCheck.map
                     /\ cache' = cached.cache
                     /\ SetDispatcher(ThrottledRequest(
                            [Dispatcher EXCEPT !.hs[FirstFree].key = cacheKey],
                            FirstFree, now))
                     /\ UNCHANGED lastResponse

(***************************************************************************)
(* The spacing timer of executeRequest fires: the upstream call starts.    *)
(***************************************************************************)
SpacingElapsed(h) ==
    /\ handlers[h].pc = "spacing"
    /\ now >= handlers[h].deadline
    /\ lastRequestTime' = now
    /\ handlers' = [handlers EXCEPT ![h].pc = "fetching", ![h].attempt = 0,
                                    ![h].deadline = 0]
    /\ UNCHANGED <<now, rateLimitMap, cache, requestQueue, isProcessingQueue,
                   lastResponse>>
    /\ UNCHANGED <<allowedLog, clientVars>>

(***************************************************************************)
(* fetchFromBlockchain: what one attempt's outcome leads to.               *)
(*   "return" with the payload, "throw" with the error, or "sleep".        *)
(***************************************************************************)
\* A variant that throws at the first failed attempt.
AttemptResultGivesUp(attempt, outcome) ==
    IF outcome.kind = "ok"
    THEN [then |-> "return", data |-> outcome.data, delay |-> 0]
    ELSE [then |-> "throw",
          data |-> IF outcome.kind = "429"
                   THEN "Blockchain.info rate limit exceeded."
                   ELSE "Blockchain API error",
          delay |-> 0]

\* A variant that backs off exponentially after a 429 as well.
AttemptResultIgnoresRetryAfter(attempt, outcome) ==
    IF outcome.kind = "ok"
    THEN [then |-> "return", data |-> outcome.data, delay |-> 0]
    ELSE IF attempt = RETRIES - 1
    THEN [then |-> "throw",
          data |-> IF outcome.kind = "429"
                   THEN "Blockchain.info rate limit exceeded."
                   ELSE "Blockchain API error",
          delay |-> 0]
    ELSE [then |-> "sleep", data |-> Null, delay |-> (2 ^ attempt) * 1000]

AttemptResult(attempt, outcome) ==
    IF outcome.kind = "ok"
    THEN [then |-> "return", data |-> outcome.data, delay |-> 0]
    ELSE IF outcome.kind = "429" /\ attempt < RETRIES - 1
    THEN [then |-> "sleep", data |-> Null,
          delay |-> (IF outcome.retryAfter = 0 THEN DEFAULT_RETRY_AFTER
                     ELSE outcome.retryAfter) * 1000]
    ELSE IF attempt = RETRIES - 1
    THEN [then |-> "throw",
          data |-> IF outcome.kind = "429"
                   THEN "Blockchain.info rate limit exceeded."
                   ELSE "Blockchain API error",
          delay |-> 0]
    ELSE [then |-> "sleep", data |-> Null, delay |-> (2 ^ attempt) * 1000]

\* A variant whose continuation answers without storing the payload.
GetSucceedsWithoutStore(h, data) ==
    /\ UNCHANGED cache
    /\ SetDispatcher(ProcessQueue([Dispatcher EXCEPT !.hs[h] = IdleHandler], now))
    /\ lastResponse' = [NoResponse EXCEPT !.status = 200, !.data = data,
                                          !.key = handlers[h].key]

\* executeRequest resolves, the next queued call is started, and the
\* handler's continuation caches the payload and answers.
GetSucceeds(h, data) ==
    /\ cache' = SetCachedData(cache, handlers[h].key, data, now)
    /\ SetDispatcher(ProcessQueue([Dispatcher EXCEPT !.hs[h] = IdleHandler], now))
    /\ lastResponse' = [NoResponse EXCEPT !.status = 200, !.data = data,
                                          !.key = handlers[h].key]

\* A variant whose executeRequest rejects without starting the next call.
GetFailsStallsQueue(h, errorMsg) ==
    /\ UNCHANGED cache
    /\ SetDispatcher([Dispatcher EXCEPT !.hs[h] = IdleHandler])
    /\ lastResponse' =
           [NoResponse EXCEPT
               !.status = IF errorMsg = "Blockchain.info rate limit exceeded."
                          THEN 429 ELSE 500,
               !.error = errorMsg,
               !.key = handlers[h].key]

\* A variant whose catch block stores the failure under the request's key.
GetFailsCachesError(h, errorMsg) ==
    /\ cache' = SetCachedData(cache, handlers[h].key, errorMsg, now)
    /\ SetDispatcher(ProcessQueue([Dispatcher EXCEPT !.hs[h] = IdleHandler], now))
    /\ lastResponse' =
           [NoResponse EXCEPT
               !.status = IF errorMsg = "Blockchain.info rate limit exceeded."
                          THEN 429 ELSE 500,
               !.error = errorMsg,
               !.key = handlers[h].key]

\* executeRequest rejects, the next queued call is started, and the
\* handler's catch block answers.
GetFails(h, errorMsg) ==
    /\ UNCHANGED cache
    /\ SetDispatcher(ProcessQueue([Dispatcher EXCEPT !.hs[h] = IdleHandler], now))
    /\ lastResponse' =
           [NoResponse EXCEPT
               !.status = IF errorMsg = "Blockchain.info rate limit exceeded."
                          THEN 429 ELSE 500,
               !.error = errorMsg,
               !.key = handlers[h].key]

UpstreamResponds(h, outcome) ==
    /\ handlers[h].pc = "fetching"
    /\ UNCHANGED <<now, rateLimitMap, allowedLog, clientVars>>
    /\ LET r == AttemptResult(handlers[h].attempt, outcome)
       IN  CASE r.then = "return" -> GetSucceeds(h, r.data)
             [] r.then = "throw" -> GetFails(h, r.data)
             [] r.then = "sleep" ->
                  /\ handlers' = [handlers EXCEPT ![h].pc = "backoff",
                                                  ![h].deadline = now + r.delay]
                  /\ UNCHANGED <<cache, lastRequestTime, requestQueue,
                                 isProcessingQueue, lastResponse>>

BackoffElapsed(h) ==
    /\ handlers[h].pc = "backoff"
    /\ now >= handlers[h].deadline
    /\ handlers' = [handlers EXCEPT ![h].pc = "fetching", ![h].attempt = @ + 1,
                                    ![h].deadline = 0]
    /\ UNCHANGED <<now, rateLimitMap, cache, lastRequestTime, requestQueue,
                   isProcessingQueue, lastResponse>>
    /\ UNCHANGED <<allowedLog, clientVars>>

(***************************************************************************)
(* The periodic sweep (setInterval, every 5 minutes).                      *)
(***************************************************************************)
\* A variant that also drops the windows that end at this very moment.
SweptLimitsDropsEndingWindows(map, t) ==
    [ip \in {x \in DOMAIN map : ~(t >= map[x].resetTime)} |-> map[ip]]

\* The cache and the limiter's map as the sweep leaves them at time t.
SweptCache(c, t) ==
    [k \in {x \in DOMAIN c : ~(t - c[x].timestamp > CACHE_TTL)} |-> c[k]]
SweptLimits(map, t) ==
    [ip \in {x \in DOMAIN map : ~(t > map[x].resetTime)} |-> map[ip]]

Sweep ==
    /\ cache' = SweptCache(cache, now)
    /\ rateLimitMap' = SweptLimits(rateLimitMap, now)
    /\ UNCHANGED <<now, lastRequestTime, requestQueue, isProcessingQueue, handlers,
                   lastResponse>>
    /\ UNCHANGED <<allowedLog, clientVars>>

(***************************************************************************)
(* The clock moves forward to a later reading.                             *)
(***************************************************************************)
Tick(offsets) ==
    /\ \E o \in offsets : Epoch + o > now /\ now' = Epoch + o
    /\ UNCHANGED <<rateLimitMap, cache, lastRequestTime, requestQueue,
                   isProcessingQueue, handlers, lastResponse>>
    /\ UNCHANGED <<allowedLog, clientVars>>

(***************************************************************************)
(* The client: the graph store and the hooks that fill it.                 *)
(*                                                                         *)
(* A GraphNode is a record that has the fields the object carries: an      *)
(* optional field that is absent is not in the record's DOMAIN.            *)
(***************************************************************************)
DEFAULT_TRANSACTION_LIMIT == 10
MIN_ADDRESS_LENGTH == 26
MAX_ADDRESS_LENGTH == 35

AddressA == "1A1zP1eP5QGefi2DMPTfTL5SLmv7DivfNa"
AddressB == "1BvBMSEYstWetqTFn5Au4m4GFg7xJaNVN2"
AddressC == "3J98t1WpEZ73CNmQviecrnyiWrnqRhWNLy"
ShortAddress == "1short"

Addresses == {AddressA, AddressB}
Levels == 0 .. MaxLevel
Calls == 1 .. MaxCalls

\* One hook instance per component that calls useBlockchainData().
Hooks == {"HomePage", "BlockchainGraph", "LoadMoreButton"}

\* Transactions as blockchain.info reports them: inputs[i].prev_out and out[j].
Utxo(addr, value) == [addr |-> addr, value |-> value]
TxPay == [hash |-> "tx-pay", time |-> 1,
          inputs |-> <<Utxo(AddressA, 9)>>,
          out |-> <<Utxo(AddressB, 4), Utxo(AddressC, 5)>>]
\* Two outputs of AddressB are spent by one transaction.
TxSweep == [hash |-> "tx-sweep", time |-> 2,
            inputs |-> <<Utxo(AddressB, 5), Utxo(AddressB, 7)>>,
            out |-> <<Utxo(AddressA, 12)>>]
\* A coinbase input has no address.
TxCoinbase == [hash |-> "tx-coinbase", time |-> 3,
               inputs |-> <<Utxo("", 0)>>,
               out |-> <<Utxo(AddressA, 50)>>]

\* A coinbase transaction that pays AddressA, and a page of n of them.
TxNumbered(n) == [hash |-> "tx-" \o ToString(n), time |-> n,
                  inputs |-> <<Utxo("", 0)>>,
                  out |-> <<Utxo(AddressA, 50)>>]
PageOfTxs(n) == [i \in 1 .. n |-> TxNumbered(i)]

AddressResponse(n_tx, balance, txs) ==
    [n_tx |-> n_tx, final_balance |-> balance, total_received |-> balance + 9,
     total_sent |-> 9, txs |-> txs]

Responses == {AddressResponse(2, 3, <<TxPay>>),
              AddressResponse(2, 62, <<TxCoinbase, TxSweep>>)}

ErrorMessages == {"Too many requests. Please slow down."}

NoCall == [active |-> FALSE, address |-> "", level |-> 0, limit |-> 0,
           offset |-> 0, isLoadMore |-> FALSE, hook |-> ""]

\* shortenAddress
ShortenAddress(address) ==
    IF Len(address) <= 12 THEN address
    ELSE SubSeq(address, 1, 6) \o "..." \o SubSeq(address, Len(address) - 5, Len(address))

\* {...existing, ...node}: the fields node carries replace those of existing.
Spread(existing, node) ==
    [f \in DOMAIN existing \cup DOMAIN node |->
        IF f \in DOMAIN node THEN node[f] ELSE existing[f]]

IndexOf(nodes, id) ==
    IF \E i \in 1 .. Len(nodes) : nodes[i].id = id
    THEN CHOOSE i \in 1 .. Len(nodes) :
             nodes[i].id = id /\ \A j \in 1 .. i - 1 : nodes[j].id # id
    ELSE 0

\* getNode: the node with the id (undefined where HasNode is false)
HasNode(nodes, id) == IndexOf(nodes, id) > 0
GetNode(nodes, id) == nodes[IndexOf(nodes, id)]

\* node.x ?? d, for the pagination fields a new node is given
WithPaginationDefaults(node) ==
    Spread([loadedTransactions |-> 0, currentOffset |-> 0,
            hasMoreTransactions |-> TRUE], node)

\* addNode
AddNode(nodes, node) ==
    IF IndexOf(nodes, node.id) > 0
    THEN [nodes EXCEPT ![IndexOf(nodes, node.id)] = Spread(@, node)]
    ELSE Append(nodes, WithPaginationDefaults(node))

\* addNodes
AddNodesNoFilter(nodes, batch) ==
    nodes \o [i \in 1 .. Len(batch) |-> WithPaginationDefaults(batch[i])]
AddNodes(nodes, batch) ==
    LET existingIds == {nodes[i].id : i \in 1 .. Len(nodes)}
        newNodes == SelectSeq(batch, LAMBDA n : n.id \notin existingIds)
    IN nodes \o [i \in 1 .. Len(newNodes) |-> WithPaginationDefaults(newNodes[i])]

\* `${l.source}-${l.target}-${l.txHash}`
LinkKey(l) == l.source \o "-" \o l.target \o "-" \o l.txHash

\* A variant that keeps only the links of the latest page.
AddLinksKeepsLatestPage(links, batch) == batch

\* addLinks
AddLinks(links, batch) ==
    LET existingLinks == {LinkKey(links[i]) : i \in 1 .. Len(links)}
    IN links \o SelectSeq(batch, LAMBDA l : LinkKey(l) \notin existingLinks)

\* setNodeExpanded
SetNodeExpanded(nodes, id, expanded) ==
    [i \in 1 .. Len(nodes) |->
        IF nodes[i].id = id THEN Spread(nodes[i], [isExpanded |-> expanded])
        ELSE nodes[i]]

\* setNodeLoading
SetNodeLoading(loading, id, flag) ==
    IF flag THEN loading \cup {id} ELSE loading \ {id}

\* updateNodePagination
UpdateNodePagination(nodes, id, updates) ==
    [i \in 1 .. Len(nodes) |->
        IF nodes[i].id = id
        THEN Spread(nodes[i], updates)
        ELSE nodes[i]]

(***************************************************************************)
(* loadAddressData, after its fetch: the nodes and links of a page.        *)
(***************************************************************************)
\* The inputs, then the outputs, of one transaction, in forEach order.
EntriesOfTx(tx) ==
    [i \in 1 .. Len(tx.inputs) |->
        [dir |-> "in", addr |-> tx.inputs[i].addr, value |-> tx.inputs[i].value,
         hash |-> tx.hash, time |-> tx.time]]
    \o [i \in 1 .. Len(tx.out) |->
        [dir |-> "out", addr |-> tx.out[i].addr, value |-> tx.out[i].value,
         hash |-> tx.hash, time |-> tx.time]]

RECURSIVE EntriesOf(_)
EntriesOf(txs) ==
    IF txs = <<>> THEN <<>> ELSE EntriesOfTx(Head(txs)) \o EntriesOf(Tail(txs))

\* if (!addr || addr === address) return
Counterparts(address, txs) ==
    SelectSeq(EntriesOf(txs), LAMBDA e : e.addr # "" /\ e.addr # address)

RelatedNode(addr, level) ==
    [id |-> addr, label |-> ShortenAddress(addr), isExpanded |-> FALSE,
     level |-> level + 1, loadedTransactions |-> 0, currentOffset |-> 0,
     hasMoreTransactions |-> TRUE]

\* relatedNodes: one node per counterpart, at its first sighting
RECURSIVE RelatedNodesFrom(_, _, _)
RelatedNodesFrom(entries, processedAddresses, level) ==
    IF entries = <<>> THEN <<>>
    ELSE IF Head(entries).addr \in processedAddresses
         THEN RelatedNodesFrom(Tail(entries), processedAddresses, level)
         ELSE <<RelatedNode(Head(entries).addr, level)>>
              \o RelatedNodesFrom(Tail(entries),
                                  processedAddresses \cup {Head(entries).addr}, level)

RelatedNodes(address, level, txs) ==
    RelatedNodesFrom(Counterparts(address, txs), {address}, level)

\* links: one link per input or output that names a counterpart
PageLinks(address, txs) ==
    LET entries == Counterparts(address, txs)
    IN [i \in 1 .. Len(entries) |->
          [source |-> IF entries[i].dir = "in" THEN entries[i].addr ELSE address,
           target |-> IF entries[i].dir = "in" THEN address ELSE entries[i].addr,
           value |-> entries[i].value, txHash |-> entries[i].hash,
           timestamp |-> entries[i].time]]

MainNode(address, level, offset, data) ==
    [id |-> address, label |-> ShortenAddress(address),
     balance |-> data.final_balance, totalReceived |-> data.total_received,
     totalSent |-> data.total_sent, transactionCount |-> data.n_tx,
     isExpanded |-> FALSE, level |-> level,
     loadedTransactions |-> Len(data.txs),
     currentOffset |-> offset + Len(data.txs),
     hasMoreTransactions |-> offset + Len(data.txs) < data.n_tx]

\* A variant that replaces loadedTransactions by the page length.
PaginationUpdateReplaces(nodes, address, offset, data) ==
    [loadedTransactions |-> Len(data.txs),
     currentOffset |-> offset + Len(data.txs),
     hasMoreTransactions |-> offset + Len(data.txs) < data.n_tx]

PaginationUpdate(nodes, address, offset, data) ==
    [loadedTransactions |->
        (IF HasNode(nodes, address)
         THEN GetNode(nodes, address).loadedTransactions ELSE 0) + Len(data.txs),
     currentOffset |-> offset + Len(data.txs),
     hasMoreTransactions |-> offset + Len(data.txs) < data.n_tx]

\* A variant that marks the node as expanded after a load-more page too.
MergedNodesAlwaysExpands(nodes, c, data) ==
    LET first == IF c.isLoadMore
                 THEN UpdateNodePagination(nodes, c.address,
                          PaginationUpdate(nodes, c.address, c.offset, data))
                 ELSE AddNode(nodes, MainNode(c.address, c.level, c.offset, data))
        second == AddNodes(first, RelatedNodes(c.address, c.level, data.txs))
    IN SetNodeExpanded(second, c.address, TRUE)

\* The store's nodes after the try block of a call c that received data.
MergedNodes(nodes, c, data) ==
    LET first == IF c.isLoadMore
                 THEN UpdateNodePagination(nodes, c.address,
                          PaginationUpdate(nodes, c.address, c.offset, data))
                 ELSE AddNode(nodes, MainNode(c.address, c.level, c.offset, data))
        second == AddNodes(first, RelatedNodes(c.address, c.level, data.txs))
    IN IF c.isLoadMore THEN second ELSE SetNodeExpanded(second, c.address, TRUE)

MergedLinks(links, c, data) == AddLinks(links, PageLinks(c.address, data.txs))

(***************************************************************************)
(* The hooks.  A call of loadAddressData that passes the guard runs to its *)
(* await and is then outstanding until its fetch settles.                  *)
(***************************************************************************)
FreeCalls == {c \in Calls : ~calls[c].active}
FirstFreeCall == CHOOSE c \in FreeCalls : \A d \in FreeCalls : c <= d

\* isNodeLoading
IsNodeLoading(loading, id) == id \in loading

\* loadAddressData up to its await; loading is the in-flight set it reads and
\* every other part of the store and of the hook is left to the caller.
LoadAddressData(hook, address, level, offset, isLoadMore, loading) ==
    IF IsNodeLoading(loading, address)
    THEN /\ loadingNodes' = loading
         /\ UNCHANGED <<isLoading, error, calls, fetchCount>>
    ELSE /\ FreeCalls # {}
         /\ fetchCount < MaxFetches
         /\ fetchCount' = fetchCount + 1
         /\ loadingNodes' = SetNodeLoading(loading, address, TRUE)
         /\ isLoading' = [isLoading EXCEPT ![hook] = TRUE]
         /\ error' = [error EXCEPT ![hook] = Null]
         /\ calls' = [calls EXCEPT ![FirstFreeCall] =
                        [active |-> TRUE, address |-> address, level |-> level,
                         limit |-> DEFAULT_TRANSACTION_LIMIT, offset |-> offset,
                         isLoadMore |-> isLoadMore, hook |-> hook]]

\* A variant that also refuses the lengths 26 and 35.
LoadInitialAddressStrictBounds(address) ==
    /\ IF address = "" \/ Len(address) <= MIN_ADDRESS_LENGTH
                       \/ Len(address) >= MAX_ADDRESS_LENGTH
       THEN /\ error' = [error EXCEPT !["HomePage"] = "Invalid Bitcoin address format"]
            /\ UNCHANGED <<loadingNodes, isLoading, calls, fetchCount>>
       ELSE LoadAddressData("HomePage", address, 0, 0, FALSE, loadingNodes)
    /\ UNCHANGED <<graphNodes, graphLinks, selectedNode, gatewayVars, panelVars, countdown>>

\* loadInitialAddress
LoadInitialAddress(address) ==
    /\ IF address = "" \/ Len(address) < MIN_ADDRESS_LENGTH
                       \/ Len(address) > MAX_ADDRESS_LENGTH
       THEN /\ error' = [error EXCEPT !["HomePage"] = "Invalid Bitcoin address format"]
            /\ UNCHANGED <<loadingNodes, isLoading, calls, fetchCount>>
       ELSE LoadAddressData("HomePage", address, 0, 0, FALSE, loadingNodes)
    /\ UNCHANGED <<graphNodes, graphLinks, selectedNode, gatewayVars, panelVars, countdown>>

\* expandNode
ExpandNode(address, currentLevel) ==
    /\ LoadAddressData("BlockchainGraph", address, currentLevel + 1, 0, FALSE,
                       loadingNodes)
    /\ UNCHANGED <<graphNodes, graphLinks, selectedNode, gatewayVars, panelVars, countdown>>

\* A variant that does not look at hasMoreTransactions.
LoadMoreTransactionsIgnoresHasMore(address) ==
    /\ IF ~HasNode(graphNodes, address)
       THEN UNCHANGED <<loadingNodes, isLoading, error, calls, fetchCount>>
       ELSE LoadAddressData("LoadMoreButton", address,
                            GetNode(graphNodes, address).level,
                            GetNode(graphNodes, address).currentOffset,
                            TRUE, loadingNodes)
    /\ UNCHANGED <<graphNodes, graphLinks, selectedNode, gatewayVars, panelVars, countdown>>

\* loadMoreTransactions
LoadMoreTransactions(address) ==
    /\ IF ~HasNode(graphNodes, address)
       THEN UNCHANGED <<loadingNodes, isLoading, error, calls, fetchCount>>
       ELSE IF ~GetNode(graphNodes, address).hasMoreTransactions
            THEN UNCHANGED <<loadingNodes, isLoading, error, calls, fetchCount>>
            ELSE LoadAddressData("LoadMoreButton", address,
                                 GetNode(graphNodes, address).level,
                                 GetNode(graphNodes, address).currentOffset,
                                 TRUE, loadingNodes)
    /\ UNCHANGED <<graphNodes, graphLinks, selectedNode, gatewayVars, panelVars, countdown>>

\* clearGraph (the Clear Graph button)
ClearGraph ==
    /\ graphNodes' = <<>>
    /\ graphLinks' = <<>>
    /\ selectedNode' = Null
    /\ loadingNodes' = {}
    /\ UNCHANGED <<isLoading, error, calls, fetchCount, gatewayVars, panelVars, countdown>>

\* HomePage.handleSearch up to its await: clearError, clearGraph,
\* loadInitialAddress.
HandleSearch(address) ==
    /\ graphNodes' = <<>>
    /\ graphLinks' = <<>>
    /\ selectedNode' = Null
    /\ IF address = "" \/ Len(address) < MIN_ADDRESS_LENGTH
                       \/ Len(address) > MAX_ADDRESS_LENGTH
       THEN /\ error' = [error EXCEPT !["HomePage"] = "Invalid Bitcoin address format"]
            /\ loadingNodes' = {}
            /\ UNCHANGED <<isLoading, calls, fetchCount>>
       ELSE LoadAddressData("HomePage", address, 0, 0, FALSE, {})
    /\ UNCHANGED <<gatewayVars, panelVars, countdown>>

\* setSelectedNode
SetSelectedNode(id) ==
    /\ selectedNode' = id
    /\ UNCHANGED <<graphNodes, graphLinks, loadingNodes, isLoading, error, calls,
                   fetchCount, gatewayVars, panelVars, countdown>>

\* The finally block of loadAddressData.
Finally(c) ==
    /\ loadingNodes' = SetNodeLoading(loadingNodes, calls[c].address, FALSE)
    /\ isLoading' = [isLoading EXCEPT ![calls[c].hook] = FALSE]
    /\ calls' = [calls EXCEPT ![c] = NoCall]

\* The fetch of call c resolves with data: the try block, then finally.
FetchSucceeds(c, data) ==
    /\ calls[c].active
    /\ graphNodes' = MergedNodes(graphNodes, calls[c], data)
    /\ graphLinks' = MergedLinks(graphLinks, calls[c], data)
    /\ Finally(c)
    /\ UNCHANGED <<selectedNode, error, fetchCount, gatewayVars, panelVars, countdown>>

\* A variant without the finally block on the failure path.
FetchFailsKeepsMark(c, errorMessage) ==
    /\ calls[c].active
    /\ error' = [error EXCEPT ![calls[c].hook] = errorMessage]
    /\ calls' = [calls EXCEPT ![c] = NoCall]
    /\ UNCHANGED <<graphNodes, graphLinks, selectedNode, loadingNodes, isLoading,
                   fetchCount, gatewayVars, panelVars, countdown>>

\* A variant whose failure path leaves a placeholder for the address in the
\* graph.
FetchFailsLeavesPlaceholder(c, errorMessage) ==
    /\ calls[c].active
    /\ error' = [error EXCEPT ![calls[c].hook] = errorMessage]
    /\ graphNodes' = AddNode(graphNodes,
                             [id |-> calls[c].address,
                              label |-> ShortenAddress(calls[c].address),
                              isExpanded |-> FALSE,
                              level |-> calls[c].level])
    /\ Finally(c)
    /\ UNCHANGED <<graphLinks, selectedNode, fetchCount, gatewayVars, panelVars, countdown>>

\* The fetch of call c rejects: the catch block, then finally.
FetchFails(c, errorMessage) ==
    /\ calls[c].active
    /\ error' = [error EXCEPT ![calls[c].hook] = errorMessage]
    /\ Finally(c)
    /\ UNCHANGED <<graphNodes, graphLinks, selectedNode, fetchCount, gatewayVars, panelVars, countdown>>

(***************************************************************************)
(* The detail panel (AddressDetails): it fetches the balance of the        *)
(* selected node when the node has none, and writes the node back.         *)
(***************************************************************************)
NoSnapshot == <<>>

\* The effect: the selected node has no balance, no balance fetch is under
\* way and the node is not loading.
BalanceEffect ==
    /\ HasNode(graphNodes, selectedNode)
    /\ "balance" \notin DOMAIN GetNode(graphNodes, selectedNode)
    /\ "totalReceived" \notin DOMAIN GetNode(graphNodes, selectedNode)
    /\ ~isFetchingBalance
    /\ ~IsNodeLoading(loadingNodes, selectedNode)
    /\ fetchCount < MaxFetches
    /\ fetchCount' = fetchCount + 1
    /\ isFetchingBalance' = TRUE
    /\ balanceSnapshot' = GetNode(graphNodes, selectedNode)
    /\ UNCHANGED <<storeVars, isLoading, error, calls, gatewayVars, countdown>>

\* updatedNode: the snapshot with the balance fields of the response.
UpdatedNode(snapshot, data) ==
    Spread(snapshot,
           [balance |-> data.final_balance,
            totalReceived |-> data.total_received,
            totalSent |-> data.total_sent,
            transactionCount |-> data.n_tx,
            loadedTransactions |-> snapshot.loadedTransactions,
            currentOffset |-> snapshot.currentOffset,
            hasMoreTransactions |-> snapshot.hasMoreTransactions])

\* The balance fetch resolves: addNode(updatedNode).
BalanceFetched(data) ==
    /\ isFetchingBalance
    /\ graphNodes' = AddNode(graphNodes, UpdatedNode(balanceSnapshot, data))
    /\ isFetchingBalance' = FALSE
    /\ balanceSnapshot' = NoSnapshot
    /\ UNCHANGED <<graphLinks, selectedNode, loadingNodes, isLoading, error, calls,
                   fetchCount, gatewayVars, countdown>>

\* The balance fetch rejects.
BalanceFetchFailed ==
    /\ isFetchingBalance
    /\ isFetchingBalance' = FALSE
    /\ balanceSnapshot' = NoSnapshot
    /\ UNCHANGED <<storeVars, isLoading, error, calls, fetchCount, gatewayVars, countdown>>

\* The step in which call c returns, its fetch having rejected or resolved.
Returns(c) ==
    \/ \E m \in ErrorMessages : FetchFails(c, m)
    \/ \E data \in Responses : FetchSucceeds(c, data)

ClientInit ==
    /\ graphNodes = <<>>
    /\ graphLinks = <<>>
    /\ selectedNode = Null
    /\ loadingNodes = {}
    /\ isLoading = [k \in Hooks |-> FALSE]
    /\ error = [k \in Hooks |-> Null]
    /\ calls = [c \in Calls |-> NoCall]
    /\ fetchCount = 0
    /\ isFetchingBalance = FALSE
    /\ balanceSnapshot = NoSnapshot
    /\ countdown = 0

\* The operations of the page on the addresses given, typed (typed) or
\* clicked (addresses), with the provider answering from responses.
ClientSteps(typed, addresses, responses) ==
    \/ \E a \in typed : LoadInitialAddress(a)
    \/ \E a \in addresses, l \in Levels : ExpandNode(a, l)
    \/ \E a \in addresses : LoadMoreTransactions(a)
    \/ \E a \in typed : HandleSearch(a)
    \/ ClearGraph
    \/ \E a \in addresses : SetSelectedNode(a)
    \/ \E c \in Calls, data \in responses : FetchSucceeds(c, data)
    \/ \E c \in Calls, m \in ErrorMessages : FetchFails(c, m)

ClientNext == ClientSteps(Addresses \cup {ShortAddress}, Addresses, Responses)

\* Pagination: an address with 25 transactions, served in pages of 10 and 5,
\* and a page served after a 26th transaction has arrived.
PagedResponses == {AddressResponse(25, 1250, PageOfTxs(10)),
                   AddressResponse(25, 1250, PageOfTxs(5)),
                   AddressResponse(26, 1300, PageOfTxs(5))}
PagedNext == ClientSteps({AddressA}, {AddressA}, PagedResponses)

\* Load More on a page that is never cleared: the provider may also answer
\* with a page that holds no transactions.
EmptyPageResponses == {AddressResponse(25, 1250, PageOfTxs(10)),
                       AddressResponse(25, 1250, PageOfTxs(5)),
                       AddressResponse(25, 1250, PageOfTxs(0))}
LoadMoreNext ==
    \/ \E a \in Addresses : LoadInitialAddress(a)
    \/ \E a \in Addresses, l \in Levels : ExpandNode(a, l)
    \/ \E a \in Addresses : LoadMoreTransactions(a)
    \/ \E c \in Calls, data \in EmptyPageResponses : FetchSucceeds(c, data)
    \/ \E c \in Calls, m \in ErrorMessages : FetchFails(c, m)

\* The clock reaches the deadline of the timer a call is waiting for.
TimerDue ==
    /\ \E h \in DOMAIN handlers :
          /\ handlers[h].pc \in {"spacing", "backoff"}
          /\ handlers[h].deadline > now
          /\ now' = handlers[h].deadline
    /\ UNCHANGED <<rateLimitMap, cache, lastRequestTime, requestQueue,
                   isProcessingQueue, handlers, lastResponse>>
    /\ UNCHANGED <<allowedLog, clientVars>>

GatewayInit ==
    /\ now = Epoch
    /\ rateLimitMap = <<>>
    /\ cache = <<>>
    /\ lastRequestTime = 0
    /\ requestQueue = <<>>
    /\ isProcessingQueue = FALSE
    /\ handlers = [h \in Handlers |-> IdleHandler]
    /\ lastResponse = NoResponse
    /\ allowedLog = <<>>

GatewayNext(ips, queries, outcomes, offsets) ==
    \/ \E ip \in ips, q \in queries : GET(ip, q)
    \/ \E h \in Handlers : SpacingElapsed(h)
    \/ \E h \in Handlers, o \in outcomes : UpstreamResponds(h, o)
    \/ \E h \in Handlers : BackoffElapsed(h)
    \/ Sweep
    \/ Tick(offsets)

RateNext == GatewayNext(RateIps, RateQueries, RateOutcomes, RateClock)
DispatchNext == GatewayNext(DispatchIps, DispatchQueries, DispatchOutcomes, DispatchClock)
CacheNext == GatewayNext(CacheIps, CacheQueries, CacheOutcomes, CacheClock)
RejectNext == GatewayNext(RejectIps, RejectQueries, RejectOutcomes, RejectClock)
KeyNext == GatewayNext(KeyIps, KeyQueries, KeyOutcomes, KeyClock)

LiveNext ==
    \/ \E ip \in LiveIps, q \in LiveQueries : GET(ip, q)
    \/ \E h \in Handlers : SpacingElapsed(h)
    \/ \E h \in Handlers, o \in LiveOutcomes : UpstreamResponds(h, o)
    \/ \E h \in Handlers : BackoffElapsed(h)
    \/ Sweep
    \/ TimerDue

Init == GatewayInit /\ ClientInit

\* Bursts: the observed client, one page, and clock readings at the end of
\* the first window and right after it.
BurstIps == {ObservedIp}
BurstQueries == {Page(0)}
BurstOutcomes == {Ok("snapshot1"), Failure}
BurstClock == {RATE_LIMIT_WINDOW, RATE_LIMIT_WINDOW + 1}
BurstNext == GatewayNext(BurstIps, BurstQueries, BurstOutcomes, BurstClock)
SpecBurst == Init /\ [][BurstNext]_vars

\* The sweep: one client, two pages, and clock readings at the end of the
\* first window and of the first cache lifetime and right after each.
SweepIps == {"10.0.0.1"}
SweepQueries == {Page(0), Page(10)}
SweepOutcomes == {Ok("snapshot1"), Failure}
SweepClock == {RATE_LIMIT_WINDOW, RATE_LIMIT_WINDOW + 1, CACHE_TTL, CACHE_TTL + 1}
SweepNext == GatewayNext(SweepIps, SweepQueries, SweepOutcomes, SweepClock)
SpecSweep == Init /\ [][SweepNext]_vars

\* The queue: three requests for three pages can wait at once; the clock
\* reads are the two retry deadlines of a call that started at Epoch.
QueueHandlers == 1 .. MaxQueued
QueueIps == {"10.0.0.1"}
QueueQueries == {Page(0), Page(10), Page(20)}
QueueOutcomes == {Ok("snapshot1"), Failure}
QueueClock == {1000, 3000}

QueueInit ==
    /\ now = Epoch
    /\ rateLimitMap = <<>>
    /\ cache = <<>>
    /\ lastRequestTime = 0
    /\ requestQueue = <<>>
    /\ isProcessingQueue = FALSE
    /\ handlers = [h \in QueueHandlers |-> IdleHandler]
    /\ lastResponse = NoResponse
    /\ allowedLog = <<>>
    /\ ClientInit

QueueNext ==
    \/ \E ip \in QueueIps, q \in QueueQueries : GET(ip, q)
    \/ \E h \in QueueHandlers : SpacingElapsed(h)
    \/ \E h \in QueueHandlers, o \in QueueOutcomes : UpstreamResponds(h, o)
    \/ \E h \in QueueHandlers : BackoffElapsed(h)
    \/ Sweep
    \/ Tick(QueueClock)

SpecQueue == QueueInit /\ [][QueueNext]_vars

SpecRateLimit == Init /\ [][RateNext]_vars
SpecDispatcher == Init /\ [][DispatchNext]_vars
SpecCache == Init /\ [][CacheNext]_vars
SpecReject == Init /\ [][RejectNext]_vars
SpecCacheKeys == Init /\ [][KeyNext]_vars

\* Every timer fires once it is due, and every upstream attempt returns or
\* fails.
SpecDispatcherLive ==
    /\ Init /\ [][LiveNext]_vars
    /\ WF_vars(TimerDue)
    /\ \A h \in Handlers :
          /\ WF_vars(SpacingElapsed(h))
          /\ WF_vars(BackoffElapsed(h))
          /\ WF_vars(\E o \in LiveOutcomes : UpstreamResponds(h, o))
SpecCoordinator == Init /\ [][ClientNext]_vars

SpecPagination == Init /\ [][PagedNext]_vars
SpecLoadMore == Init /\ [][LoadMoreNext]_vars

\* The page with its detail panel.
PanelResponses == {AddressResponse(2, 3, <<TxPay>>)}
PanelNext ==
    \/ ClientSteps({AddressA}, Addresses, PanelResponses)
    \/ BalanceEffect
    \/ \E data \in PanelResponses : BalanceFetched(data)
    \/ BalanceFetchFailed

SpecPanel == Init /\ [][PanelNext]_vars

\* String.prototype.trim, for the blanks a user can type.
RECURSIVE TrimStart(_)
TrimStart(s) ==
    IF Len(s) > 0 /\ SubSeq(s, 1, 1) = " " THEN TrimStart(SubSeq(s, 2, Len(s))) ELSE s

RECURSIVE TrimEnd(_)
TrimEnd(s) ==
    IF Len(s) > 0 /\ SubSeq(s, Len(s), Len(s)) = " "
    THEN TrimEnd(SubSeq(s, 1, Len(s) - 1)) ELSE s

Trim(s) == TrimEnd(TrimStart(s))

\* The retryAfter prop HomePage hands to SearchBar: none (0 stands for
\* undefined, which fails the effect's test the same way).
HomePageRetryAfter == 0

\* SearchBar's effect on retryAfter.
CountdownEffect(retryAfter) ==
    /\ countdown' = IF retryAfter > 0 THEN retryAfter ELSE countdown
    /\ UNCHANGED <<storeVars, isLoading, error, calls, fetchCount, panelVars,
                   gatewayVars>>

\* The callback of the effect's one-second interval.
CountdownTick ==
    /\ countdown' = IF countdown <= 1 THEN 0 ELSE countdown - 1
    /\ UNCHANGED <<storeVars, isLoading, error, calls, fetchCount, panelVars,
                   gatewayVars>>

\* SearchBar.handleSubmit with the text in the input field.
HandleSubmit(address) ==
    LET trimmedAddress == Trim(address) IN
    IF trimmedAddress = "" \/ countdown > 0 \/ isLoading["HomePage"]
    THEN UNCHANGED vars
    ELSE HandleSearch(trimmedAddress)

\* SearchBar.loadSampleAddress and the timeout it sets.
LoadSampleAddress ==
    IF isLoading["HomePage"] \/ countdown > 0
    THEN UNCHANGED vars
    ELSE HandleSearch("1A1zP1eP5QGefi2DMPTfTL5SLmv7DivfNa")

\* The page driven through its search bar.
SearchTexts == {"", "  ", " " \o AddressB \o " ", ShortAddress}
SearchBarNext ==
    \/ \E a \in SearchTexts : HandleSubmit(a)
    \/ LoadSampleAddress
    \/ CountdownEffect(HomePageRetryAfter)
    \/ CountdownTick
    \/ \E a \in Addresses, l \in Levels : ExpandNode(a, l)
    \/ \E a \in Addresses : SetSelectedNode(a)
    \/ \E c \in Calls, data \in PanelResponses : FetchSucceeds(c, data)
    \/ \E c \in Calls, m \in ErrorMessages : FetchFails(c, m)

SpecSearchBar == Init /\ [][SearchBarNext]_vars

\* Address validation: the empty address and addresses of the lengths on
\* both sides of the two bounds are typed, and one of them is expanded too.
AddressOfLength(n) == SubSeq(AddressA \o "XY", 1, n)
TypedAddresses == {"", AddressOfLength(25), AddressOfLength(26),
                   AddressOfLength(35), AddressOfLength(36)}
ValidationNext ==
    ClientSteps(TypedAddresses, {AddressOfLength(26)}, PanelResponses)

SpecValidation == Init /\ [][ValidationNext]_vars

\* The graph store on its own: batches of links are merged with addLinks.
\* The links differ in their hash, in their direction, or in where the "-"
\* falls between source and target.
Link(source, target, txHash) ==
    [source |-> source, target |-> target, value |-> 1, txHash |-> txHash,
     timestamp |-> 1]
StoreLinks == {Link("A", "B", "tx1"), Link("A", "B", "tx3"), Link("B", "A", "tx1"),
               Link("A-B", "C", "tx1"), Link("A", "B-C", "tx1")}
\* Batches of one or two links, free of internal duplicates.
LinkBatches ==
    {<<l>> : l \in StoreLinks}
      \cup {b \in StoreLinks \X StoreLinks : b[1] # b[2]}

\* useGraphStore.getState().addLinks(batch)
StoreAddLinks(batch) ==
    /\ graphLinks' = AddLinks(graphLinks, batch)
    /\ UNCHANGED <<graphNodes, selectedNode, loadingNodes, isLoading, error, calls,
                   fetchCount, gatewayVars, panelVars, countdown>>

LinkStoreNext ==
    \/ \E batch \in LinkBatches : StoreAddLinks(batch)
    \/ ClearGraph

SpecLinkStore == Init /\ [][LinkStoreNext]_vars

\* Every fetch of the client settles: fetchAddressData resolves or rejects.
SpecCoordinatorLive ==
    /\ Init /\ [][ClientNext]_vars
    /\ \A c \in Calls : WF_vars(Returns(c))

(***************************************************************************)
(* Properties of the gateway.                                              *)
(***************************************************************************)
AllIps == RateIps \cup DispatchIps \cup CacheIps \cup RejectIps \cup LiveIps
AllQueries == RateQueries \cup DispatchQueries \cup CacheQueries \cup RejectQueries \cup LiveQueries
AllOutcomes == RateOutcomes \cup DispatchOutcomes \cup CacheOutcomes \cup RejectOutcomes \cup LiveOutcomes
AllPayloads == {o.data : o \in {x \in AllOutcomes : x.kind = "ok"}}

WindowOpen(ip) == ip \in DOMAIN rateLimitMap /\ now <= rateLimitMap[ip].resetTime
LimiterRejects(ip) ==
    WindowOpen(ip) /\ rateLimitMap[ip].count >= MAX_REQUESTS_PER_WINDOW
Fresh(key) == key \in DOMAIN cache /\ now - cache[key].timestamp <= CACHE_TTL
KeyOf(q) == CacheKey(q.address, q.limit, q.offset)
InFlight == {h \in Handlers : handlers[h].pc \in {"spacing", "fetching", "backoff"}}
Suspended == {h \in Handlers : handlers[h].pc # "idle"}
DispatcherUntouched ==
    UNCHANGED <<requestQueue, isProcessingQueue, lastRequestTime, handlers>>
\* The upstream call of handler h ends in this step, with a payload or failing.
Succeeds(h, data) == UpstreamResponds(h, Ok(data))
FailsFor(h) ==
    /\ handlers'[h].pc = "idle"
    /\ \E o \in AllOutcomes : o.kind # "ok" /\ UpstreamResponds(h, o)

\* C1: a client's stored count never exceeds MAX_REQUESTS_PER_WINDOW; while a
\* window is open its entry stays, keeps its reset time and its count grows
\* by at most one per step; every admitted request is counted (one more in an
\* open window, 1 in a new one); and a rejected request changes neither the
\* count nor the reset time and is not passed on - whatever other handlers
\* are suspended at that moment.
C1_RateLimitNeverExceeded ==
    [][ /\ \A ip \in DOMAIN rateLimitMap' :
              rateLimitMap'[ip].count <= MAX_REQUESTS_PER_WINDOW
        /\ \A ip \in DOMAIN rateLimitMap :
              now <= rateLimitMap[ip].resetTime =>
                 /\ ip \in DOMAIN rateLimitMap'
                 /\ rateLimitMap'[ip].resetTime = rateLimitMap[ip].resetTime
                 /\ rateLimitMap'[ip].count \in
                        {rateLimitMap[ip].count, rateLimitMap[ip].count + 1}
        /\ \A ip \in AllIps, q \in AllQueries :
              (q.address # "" /\ GET(ip, q)) =>
                 IF LimiterRejects(ip)
                 THEN /\ rateLimitMap' = rateLimitMap
                      /\ lastResponse'.status = 429
                      /\ DispatcherUntouched
                 ELSE /\ ip \in DOMAIN rateLimitMap'
                      /\ rateLimitMap'[ip].count =
                            IF WindowOpen(ip) THEN rateLimitMap[ip].count + 1 ELSE 1
      ]_vars

\* A client was refused at a full window while another request was suspended
\* in the dispatcher.
C1_Witness ==
    /\ lastResponse.status = 429
    /\ lastResponse.error = "Too many requests. Please slow down."
    /\ \E ip \in DOMAIN rateLimitMap :
          rateLimitMap[ip].count = MAX_REQUESTS_PER_WINDOW
    /\ Suspended # {}

\* C2: at most one queued upstream call has been started and has not yet
\* resolved or rejected (waiting for its spacing, fetching or backing off).
C2_SingleFlight == Cardinality(InFlight) <= 1

\* One call is in its retry backoff while another waits in the queue.
C2_Witness ==
    \E h1, h2 \in Handlers :
        /\ handlers[h1].pc = "backoff"
        /\ handlers[h2].pc = "queued"
        /\ requestQueue = <<h2>>

\* The upstream call of handler h starts in this step.
StartsCall(h) ==
    /\ handlers[h].pc \in {"idle", "queued", "spacing"}
    /\ handlers'[h].pc = "fetching"

\* C3: whenever the dispatcher starts a queued call, the start time written
\* to lastRequestTime is the current time and is at least REQUEST_DELAY after
\* the previous value of lastRequestTime.
C3_MinimumSpacing ==
    [][ /\ (\E h \in Handlers : StartsCall(h)) =>
              /\ lastRequestTime' = now
              /\ lastRequestTime' - lastRequestTime >= REQUEST_DELAY
        /\ lastRequestTime' # lastRequestTime => \E h \in Handlers : StartsCall(h)
      ]_vars

\* A call that started at Epoch has completed and the next one has started
\* exactly REQUEST_DELAY later.
C3_Witness ==
    /\ lastRequestTime = Epoch + REQUEST_DELAY
    /\ \E k \in DOMAIN cache : cache[k].timestamp < Epoch + REQUEST_DELAY
    /\ \E h \in Handlers : handlers[h].pc = "fetching"
\* C8: the handler's cache lookup (getCachedData) and store (setCachedData).
\* A lookup of a key whose entry is older than CACHE_TTL reports it absent
\* (the request is passed to the dispatcher, not answered) and removes that
\* entry and no other; a lookup at an age up to CACHE_TTL leaves the map as
\* it is and returns the stored payload; a lookup of a key that has no entry
\* changes nothing; and a store puts exactly the payload under the key with
\* the current time, so that a lookup at that same time returns it.
C8_CacheGetPut ==
    [][ /\ \A ip \in AllIps, q \in AllQueries :
              (q.address # "" /\ ~LimiterRejects(ip) /\ GET(ip, q)) =>
                 LET key == KeyOf(q)
                 IN  IF key \notin DOMAIN cache
                     THEN cache' = cache
                     ELSE IF now - cache[key].timestamp > CACHE_TTL
                     THEN /\ DOMAIN cache' = DOMAIN cache \ {key}
                          /\ \A k \in DOMAIN cache' : cache'[k] = cache[k]
                          /\ lastResponse' = lastResponse
                          /\ Suspended' # Suspended
                     ELSE /\ cache' = cache
                          /\ lastResponse'.data = cache[key].data
                          /\ lastResponse'.data # Null
        /\ \A h \in Handlers, p \in AllPayloads :
              Succeeds(h, p) =>
                 /\ handlers[h].key \in DOMAIN cache'
                 /\ cache'[handlers[h].key] = [data |-> p, timestamp |-> now]
                 /\ now' = now
      ]_vars

\* A key that had been answered from the cache is looked up again after its
\* entry expired: the entry is gone and the request waits in the dispatcher,
\* while an older expired entry of another key is still in the map (so no
\* sweep removed it).
C8_Witness ==
    \E h \in Suspended, k2 \in DOMAIN cache :
        /\ handlers[h].key \notin DOMAIN cache
        /\ lastResponse.cached
        /\ lastResponse.key = handlers[h].key
        /\ cache[k2].timestamp = Epoch
        /\ now - cache[k2].timestamp > CACHE_TTL

\* C9: an admitted request is answered from the cache (status 200, cached
\* true, the dispatcher untouched) exactly when a fresh entry exists for its
\* key; otherwise it is not answered yet and exactly one call, carrying its
\* key, is submitted to the dispatcher (queued, or started at once when the
\* dispatcher is free); when that call returns a payload, the payload is
\* stored under the key and the answer has cached false.
C9_CacheHitOrDispatch ==
    [][ /\ \A ip \in AllIps, q \in AllQueries :
              (q.address # "" /\ ~LimiterRejects(ip) /\ GET(ip, q)) =>
                 IF Fresh(KeyOf(q))
                 THEN /\ lastResponse'.status = 200
                      /\ lastResponse'.cached
                      /\ lastResponse'.key = KeyOf(q)
                      /\ DispatcherUntouched
                 ELSE /\ lastResponse' = lastResponse
                      /\ \E h \in Handlers :
                            /\ handlers[h].pc = "idle"
                            /\ handlers'[h].pc # "idle"
                            /\ handlers'[h].key = KeyOf(q)
                            /\ \A g \in Handlers \ {h} : handlers'[g] = handlers[g]
                            /\ \/ requestQueue' = Append(requestQueue, h)
                               \/ requestQueue' = requestQueue /\ InFlight' = {h}
        /\ \A h \in Handlers, p \in AllPayloads :
              Succeeds(h, p) =>
                 /\ handlers[h].key \in DOMAIN cache'
                 /\ cache'[handlers[h].key].data = p
                 /\ lastResponse'.status = 200
                 /\ ~lastResponse'.cached
                 /\ lastResponse'.data = p
                 /\ lastResponse'.key = handlers[h].key
      ]_vars

\* A request was answered from the cache while a request for another key,
\* which missed, is suspended in the dispatcher.
C9_Witness ==
    /\ lastResponse.status = 200
    /\ lastResponse.cached
    /\ Fresh(lastResponse.key)
    /\ \E h \in Suspended : handlers[h].key # lastResponse.key

C11_RejectionsAreSideEffectFree ==
    [][ \A ip \in AllIps, q \in AllQueries :
          GET(ip, q) =>
             /\ q.address = "" =>
                   /\ lastResponse'.status = 400
                   /\ rateLimitMap' = rateLimitMap
                   /\ cache' = cache
                   /\ DispatcherUntouched
             /\ (q.address # "" /\ LimiterRejects(ip)) =>
                   /\ lastResponse'.status = 429
                   /\ lastResponse'.retryAfter =
                         Ceil(rateLimitMap[ip].resetTime - now, 1000)
                   /\ rateLimitMap' = rateLimitMap
                   /\ cache' = cache
                   /\ DispatcherUntouched
      ]_vars

\* A client was refused at a full window while an expired entry and a fresh
\* one are in the cache.
C11_Witness ==
    /\ lastResponse.status = 429
    /\ lastResponse.error = "Too many requests. Please slow down."
    /\ lastResponse.retryAfter = RATE_LIMIT_WINDOW \div 1000
    /\ \E k \in DOMAIN cache : ~Fresh(k)
    /\ \E k \in DOMAIN cache : Fresh(k)

\* C24: a check made for a client while its window is open (now at most the
\* window's reset time) is allowed, and counted, if fewer than
\* MAX_REQUESTS_PER_WINDOW checks have been allowed in the window; otherwise
\* it is rejected with retryAfter = ceil((resetTime - now) / 1000), which is
\* greater than 0.
C24_ExactlyMaxPerWindow ==
    [][ \A ip \in AllIps, q \in AllQueries :
          (q.address # "" /\ WindowOpen(ip) /\ GET(ip, q)) =>
             IF rateLimitMap[ip].count < MAX_REQUESTS_PER_WINDOW
             THEN /\ rateLimitMap'[ip].count = rateLimitMap[ip].count + 1
                  /\ rateLimitMap'[ip].resetTime = rateLimitMap[ip].resetTime
             ELSE /\ rateLimitMap' = rateLimitMap
                  /\ lastResponse'.status = 429
                  /\ lastResponse'.retryAfter =
                        Ceil(rateLimitMap[ip].resetTime - now, 1000)
                  /\ lastResponse'.retryAfter > 0
      ]_vars

\* The request is not answered by the limiter: it is answered from the cache
\* or passed to the dispatcher.
Admitted ==
    \/ lastResponse'.status = 200
    \/ lastResponse' = lastResponse /\ handlers' # handlers

\* C25: a check made for a client after its window's reset time has passed
\* is allowed and opens a new window with count 1 and reset time now + the
\* window length, whatever the count of the old window was; in the new
\* window, as in any open one, a check is allowed while fewer than
\* MAX_REQUESTS_PER_WINDOW were allowed; and no step moves the reset time of
\* an open window.
C25_WindowResetsWholesale ==
    [][ /\ \A ip \in AllIps, q \in AllQueries :
              (q.address # "" /\ ip \in DOMAIN rateLimitMap /\ GET(ip, q)) =>
                 /\ now > rateLimitMap[ip].resetTime =>
                       /\ rateLimitMap'[ip] =
                             [count |-> 1, resetTime |-> now + RATE_LIMIT_WINDOW]
                       /\ Admitted
                 /\ (now <= rateLimitMap[ip].resetTime
                       /\ rateLimitMap[ip].count < MAX_REQUESTS_PER_WINDOW) =>
                       /\ rateLimitMap'[ip].count = rateLimitMap[ip].count + 1
                       /\ Admitted
        /\ \A ip \in DOMAIN rateLimitMap :
              now <= rateLimitMap[ip].resetTime =>
                 /\ ip \in DOMAIN rateLimitMap'
                 /\ rateLimitMap'[ip].resetTime = rateLimitMap[ip].resetTime
      ]_vars

\* A window opened after the reset time of the first one has been filled and
\* the client refused in it, while the cache still holds an entry that was
\* stored during the first window.
C25_Witness ==
    /\ now = Epoch + RATE_LIMIT_WINDOW + 1
    /\ lastResponse.status = 429
    /\ lastResponse.retryAfter = RATE_LIMIT_WINDOW \div 1000
    /\ \E ip \in DOMAIN rateLimitMap :
          /\ rateLimitMap[ip].resetTime = now + RATE_LIMIT_WINDOW
          /\ rateLimitMap[ip].count = MAX_REQUESTS_PER_WINDOW
    /\ \E k \in DOMAIN cache : cache[k].timestamp < Epoch + RATE_LIMIT_WINDOW

\* C26: every entry of the cache belongs to one (address, limit, offset)
\* triple only: no two different triples that the handler can receive are
\* given the key of a stored entry, so that the entry stored by a request for
\* one of them is never the one looked up by a request for the other.
C26_KeyInjective ==
    \A k \in DOMAIN cache :
        \A q1, q2 \in KeyQueries :
            (KeyOf(q1) = k /\ KeyOf(q2) = k) => q1 = q2

\* C27: no attempt of an upstream call is started for a key while a fresh
\* entry for that key is in the cache; so the requests for one key that are
\* admitted within the TTL of its entry, those that were waiting while the
\* entry was being fetched included, cause one upstream call in total.
C27_NoUpstreamCallWhileFresh ==
    [][ \A h \in Handlers :
          (handlers[h].pc # "fetching" /\ handlers'[h].pc = "fetching")
             => ~Fresh(handlers[h].key)'
      ]_vars

\* The upstream calls that are waiting: for their turn in the queue, for the
\* spacing timer or for a retry delay.
Waiting == {h \in Handlers : handlers[h].pc \in {"queued", "spacing", "backoff"}}

\* C28: in every state in which an upstream call is waiting (for its turn,
\* for the spacing or in a retry backoff), a request of any client can be
\* handled at once, leaving the waiting call where it is: a request the
\* limiter refuses gets its 429, a request whose key is fresh in the cache
\* gets the cached payload, and for any other request the limiter's decision
\* is made and recorded (the request then joins the queue).
C28_WaitingNeverBlocks ==
    \A ip \in AllIps, q \in AllQueries :
        (Waiting # {} /\ q.address # "") =>
            /\ LimiterRejects(ip) =>
                  ENABLED (/\ GET(ip, q)
                           /\ lastResponse'.status = 429
                           /\ handlers' = handlers)
            /\ (~LimiterRejects(ip) /\ Fresh(KeyOf(q))) =>
                  ENABLED (/\ GET(ip, q)
                           /\ lastResponse'.status = 200
                           /\ lastResponse'.cached
                           /\ lastResponse'.data = cache[KeyOf(q)].data
                           /\ handlers' = handlers)
            /\ (~LimiterRejects(ip) /\ ~Fresh(KeyOf(q)) /\ FreeHandlers # {}) =>
                  ENABLED (/\ GET(ip, q)
                           /\ rateLimitMap' = CheckRateLimit(rateLimitMap, ip, now).map
                           /\ \A h \in Waiting : handlers'[h] = handlers[h])

\* A request was answered from the cache while the call of an earlier request
\* for the same key, submitted before the entry was stored, waits for its
\* spacing.
C28_Witness ==
    /\ now = Epoch
    /\ lastResponse.status = 200
    /\ lastResponse.cached
    /\ \E h \in Handlers :
          /\ handlers[h].pc = "spacing"
          /\ handlers[h].key = lastResponse.key

\* The calls that were submitted and have not started, in the order the
\* dispatcher holds them: the call waiting for its spacing timer, then the
\* queue.
Pending ==
    (IF \E h \in DOMAIN handlers : handlers[h].pc = "spacing"
     THEN <<CHOOSE h \in DOMAIN handlers : handlers[h].pc = "spacing">>
     ELSE <<>>) \o requestQueue

\* Where handler h stands in the sequence q (0 if it is not in it).
PositionIn(q, h) ==
    IF \E i \in 1 .. Len(q) : q[i] = h
    THEN CHOOSE i \in 1 .. Len(q) : q[i] = h
    ELSE 0

\* C30: calls start in the order of their submission.  A submitted call
\* that has not started is either the one waiting for its spacing timer or in
\* the queue, never twice; a newly submitted call comes after every call
\* that is still waiting, waiting calls keep their order, and the call that
\* starts is the first of the waiting ones, also in the step in which the
\* call before it fails.
C30_StartsInSubmissionOrder ==
    [][ /\ \A h \in DOMAIN handlers :
              handlers'[h].pc \in {"queued", "spacing"} =>
                 /\ PositionIn(Pending', h) > 0
                 /\ \A i \in 1 .. Len(Pending') :
                       Pending'[i] = h => i = PositionIn(Pending', h)
        /\ \A h \in DOMAIN handlers :
              StartsCall(h) =>
                 \/ Pending # <<>> /\ h = Head(Pending)
                 \/ handlers[h].pc = "idle" /\ Pending = <<>>
        /\ \A g, h \in DOMAIN handlers :
              (PositionIn(Pending', g) > 0 /\ PositionIn(Pending', h) > 0
               /\ PositionIn(Pending', g) < PositionIn(Pending', h)) =>
                 \/ PositionIn(Pending, h) = 0
                 \/ (PositionIn(Pending, g) > 0
                     /\ PositionIn(Pending, g) < PositionIn(Pending, h))
      ]_vars

\* A call has failed, the call submitted after it is being fetched, and two
\* later calls wait in the queue, the one in the lower slot last.
C30_Witness ==
    /\ lastResponse.status = 500
    /\ Len(requestQueue) = 2
    /\ requestQueue[1] > requestQueue[2]
    /\ \E h \in DOMAIN handlers :
          /\ handlers[h].pc = "fetching"
          /\ handlers[h].key # lastResponse.key

\* The error fetchFromBlockchain throws when its last attempt got outcome o.
LastError(o) ==
    IF o.kind = "429" THEN "Blockchain.info rate limit exceeded."
    ELSE "Blockchain API error"

\* C12: a call makes at most RETRIES attempts; an attempt that receives a
\* successful response, whatever the earlier attempts received, gives the
\* caller that payload; a failed attempt before the last one is followed by
\* a retry and the caller is not answered yet; when the last attempt fails
\* the caller receives that attempt's error and the call is over.
C12_RetryThenSuccessOrLastError ==
    [][ /\ \A h \in Handlers : handlers[h].attempt < RETRIES
        /\ \A h \in Handlers, o \in AllOutcomes :
              UpstreamResponds(h, o) =>
                 CASE o.kind = "ok" ->
                        /\ lastResponse'.status = 200
                        /\ lastResponse'.data = o.data
                        /\ lastResponse'.data \in AllPayloads
                        /\ lastResponse'.key = handlers[h].key
                        /\ handlers'[h].pc = "idle"
                   [] o.kind # "ok" /\ handlers[h].attempt < RETRIES - 1 ->
                        /\ handlers'[h].pc = "backoff"
                        /\ handlers'[h].attempt = handlers[h].attempt
                        /\ lastResponse' = lastResponse
                   [] o.kind # "ok" /\ handlers[h].attempt = RETRIES - 1 ->
                        /\ lastResponse'.status \in {429, 500}
                        /\ lastResponse'.error = LastError(o)
                        /\ lastResponse'.key = handlers[h].key
                        /\ handlers'[h].pc = "idle"
      ]_vars

\* A call has exhausted its attempts and its caller got the last error, and
\* the next call is fetching again after a failed attempt of its own.
C12_Witness ==
    /\ lastResponse.status = 500
    /\ lastResponse.error = "Blockchain API error"
    /\ \E h \in Handlers : handlers[h].pc = "fetching" /\ handlers[h].attempt >= 1

\* The wait, in milliseconds, after attempt k received the failed outcome o.
RetryWait(k, o) ==
    IF o.kind = "429"
    THEN (IF o.retryAfter = 0 THEN DEFAULT_RETRY_AFTER ELSE o.retryAfter) * 1000
    ELSE (2 ^ k) * 1000

\* C31: a call makes attempts 0, 1 and 2 at most: the attempt number only
\* moves by one, when a retry wait is over, and a response to attempt 2 ends
\* the call; a failed attempt k < 2 is followed by a wait of the provider's
\* Retry-After (60 s without one) after a 429 and of 2^k s otherwise, and the
\* retry is not made before that wait is over.
C31_BoundedAttemptsAndWaits ==
    [][ /\ \A h \in Handlers :
              /\ handlers'[h].attempt \in 0 .. RETRIES - 1
              /\ handlers'[h].attempt # handlers[h].attempt =>
                    \/ handlers'[h].attempt = 0
                    \/ /\ handlers'[h].attempt = handlers[h].attempt + 1
                       /\ handlers[h].pc = "backoff"
                       /\ handlers'[h].pc = "fetching"
                       /\ now >= handlers[h].deadline
        /\ \A h \in Handlers, o \in AllOutcomes :
              UpstreamResponds(h, o) =>
                 IF o.kind # "ok" /\ handlers[h].attempt < RETRIES - 1
                 THEN /\ handlers'[h].pc = "backoff"
                      /\ handlers'[h].deadline = now + RetryWait(handlers[h].attempt, o)
                 ELSE handlers'[h].pc = "idle"
      ]_vars

\* The second attempt of a call got a 429 without Retry-After and the call
\* waits 60 s for its third attempt.
C31_Witness ==
    \E h \in Handlers :
        /\ handlers[h].pc = "backoff"
        /\ handlers[h].attempt = 1
        /\ handlers[h].deadline = now + DEFAULT_RETRY_AFTER * 1000

\* The largest number of requests of the observed client that were allowed
\* within one interval of length RATE_LIMIT_WINDOW (both ends included).
MostAllowedInInterval ==
    LET spans == {p \in (1 .. Len(allowedLog)) \X (1 .. Len(allowedLog)) :
                     /\ p[1] <= p[2]
                     /\ allowedLog[p[2]] - allowedLog[p[1]] <= RATE_LIMIT_WINDOW}
    IN  IF spans = {} THEN 0
        ELSE CHOOSE n \in 0 .. Len(allowedLog) :
                 /\ \E p \in spans : n = p[2] - p[1] + 1
                 /\ \A p \in spans : p[2] - p[1] + 1 <= n

\* C32 as stated: a burst at the end of one window followed by a burst at
\* the start of the next puts 2 x MAX_REQUESTS_PER_WINDOW allowed requests
\* into one interval of length RATE_LIMIT_WINDOW: once the client was allowed
\* that many requests over the two windows, they lie in one such interval.
C32_BurstReachesTwiceMax ==
    Len(allowedLog) = 2 * MAX_REQUESTS_PER_WINDOW =>
        MostAllowedInInterval = 2 * MAX_REQUESTS_PER_WINDOW

\* C32, amended: in every interval of length RATE_LIMIT_WINDOW the client is
\* allowed at most 2 x MAX_REQUESTS_PER_WINDOW - 1 requests (the request that
\* opens a window is one of its MAX_REQUESTS_PER_WINDOW, and the next window
\* opens more than RATE_LIMIT_WINDOW after it).
C32_AtMostTwiceMaxLessOne ==
    MostAllowedInInterval <= 2 * MAX_REQUESTS_PER_WINDOW - 1

\* The bound is reached: nine requests at the reset time of the window and
\* ten in the millisecond after it.
C32_Witness ==
    /\ MostAllowedInInterval = 2 * MAX_REQUESTS_PER_WINDOW - 1
    /\ Len(allowedLog) = 2 * MAX_REQUESTS_PER_WINDOW
    /\ allowedLog[2] = allowedLog[1] + RATE_LIMIT_WINDOW
    /\ allowedLog[2 * MAX_REQUESTS_PER_WINDOW] = allowedLog[1] + RATE_LIMIT_WINDOW + 1

\* The present and the later readings of the clock in the sweep scenario.
LaterTimes == {now} \cup {Epoch + o : o \in {x \in SweepClock : Epoch + x > now}}

\* The keys of the sweep scenario's queries.
SweepKeys == {CacheKey(q.address, q.limit, q.offset) : q \in SweepQueries}

\* C35: a sweep at any point changes no later result.  In every reachable
\* state, a rate-limit check and a cache lookup give the same answer (allowed
\* or rejected, retryAfter, payload or miss) on the maps as they are and on
\* the maps as a sweep would leave them; and what the check, the lookup and a
\* cache write leave behind differs, now and at every later clock reading,
\* only in entries a sweep would remove, as do the maps themselves.  So a run
\* with sweeps and a run without stay equal up to such entries and answer
\* every request alike.
C35_SweepIsNeutral ==
    /\ \A ip \in SweepIps :
          LET raw == CheckRateLimit(rateLimitMap, ip, now)
              swept == CheckRateLimit(SweptLimits(rateLimitMap, now), ip, now)
          IN  /\ raw.allowed = swept.allowed
              /\ raw.retryAfter = swept.retryAfter
              /\ \A t \in LaterTimes : SweptLimits(raw.map, t) = SweptLimits(swept.map, t)
    /\ \A key \in SweepKeys :
          LET raw == GetCachedData(cache, key, now)
              swept == GetCachedData(SweptCache(cache, now), key, now)
          IN  /\ raw.data = swept.data
              /\ \A t \in LaterTimes : SweptCache(raw.cache, t) = SweptCache(swept.cache, t)
    /\ \A key \in SweepKeys, data \in AllPayloads, t \in LaterTimes :
          SweptCache(SetCachedData(cache, key, data, now), t)
             = SweptCache(SetCachedData(SweptCache(cache, now), key, data, now), t)
    /\ \A t \in LaterTimes :
          /\ SweptLimits(SweptLimits(rateLimitMap, now), t) = SweptLimits(rateLimitMap, t)
          /\ SweptCache(SweptCache(cache, now), t) = SweptCache(cache, t)

\* The sweep has removed the client's window after its end and has kept a
\* cache entry that is still fresh.
C35_Witness ==
    /\ rateLimitMap = <<>>
    /\ cache # <<>>
    /\ now > Epoch + RATE_LIMIT_WINDOW
    /\ \A key \in DOMAIN cache : now - cache[key].timestamp <= CACHE_TTL

\* C36: every request sent to the provider, the first attempt of a call or
\* a retry, starts at least REQUEST_DELAY after the request sent before it;
\* so it starts at least REQUEST_DELAY after the first attempt of the call
\* that was started last, whose time is in lastRequestTime.
C36_EveryProviderRequestSpaced ==
    [][ \A h \in Handlers :
          (StartsCall(h) \/ BackoffElapsed(h)) =>
              now - lastRequestTime >= REQUEST_DELAY
      ]_vars

\* C13: when timers fire and upstream attempts return or fail, every call
\* waiting in the queue is eventually started and every submitted call
\* eventually ends; a call ends only in the step in which its last attempt
\* returns or fails, and that step answers its caller (once: the call is
\* then no longer pending).
C13_QueuedCallsGetTheirTurn ==
    /\ \A h \in Handlers :
          /\ (handlers[h].pc = "queued") ~> (handlers[h].pc = "fetching")
          /\ (handlers[h].pc # "idle") ~> (handlers[h].pc = "idle")
    /\ [][ \A h \in Handlers :
              (handlers[h].pc # "idle" /\ handlers'[h].pc = "idle") =>
                 /\ \E o \in AllOutcomes : UpstreamResponds(h, o)
                 /\ lastResponse'.key = handlers[h].key
                 /\ lastResponse'.status \in {200, 429, 500}
                 /\ ~lastResponse'.cached
         ]_vars

\* A call has exhausted its retries and the call that was queued behind it,
\* for another key, is now fetching.
C13_Witness ==
    /\ lastResponse.status = 500
    /\ requestQueue = <<>>
    /\ \E h \in Handlers :
          /\ handlers[h].pc = "fetching"
          /\ handlers[h].key # lastResponse.key
          /\ lastRequestTime = now
          /\ now >= Epoch + 3000

(***************************************************************************)
(* Properties of the expansion coordinator.                                *)
(***************************************************************************)
\* The calls for an address that are awaiting their fetch.
Outstanding(address) == {c \in Calls : calls[c].active /\ calls[c].address = address}

LinkTriple(l) == <<l.source, l.target, l.txHash>>

\* C4: a loadInitial, expand or loadMore call for an address that has a call
\* awaiting its fetch changes nothing (no fetch, the graph, the in-flight set
\* and the error state as they were), and the address stays in the in-flight
\* set for as long as that earlier call is outstanding.
C4_SecondCallIsNoOp ==
    [][\A a \in Addresses :
          Outstanding(a) # {} =>
              /\ (\/ LoadInitialAddress(a)
                  \/ \E l \in Levels : ExpandNode(a, l)
                  \/ LoadMoreTransactions(a)) => UNCHANGED clientVars
              /\ Outstanding(a) \subseteq Outstanding(a)' => a \in loadingNodes']_vars

\* C5: in every reachable state at most one fetch is outstanding per address.
C5_OneOutstandingFetchPerAddress ==
    \A a \in Addresses : Cardinality(Outstanding(a)) <= 1

\* C6: in every reachable state no two stored links have the same source,
\* target and transaction hash.
C6_NoDuplicateLinks ==
    \A i, j \in 1 .. Len(graphLinks) :
        i # j => LinkTriple(graphLinks[i]) # LinkTriple(graphLinks[j])

\* C7: in every reachable state no two stored nodes have the same id.
C7_OneNodePerId ==
    \A i, j \in 1 .. Len(graphNodes) : i # j => graphNodes[i].id # graphNodes[j].id

\* Two expanded nodes joined by a link: each was the target of a merge and
\* one of them was a counterpart on the other's page.
C7_Witness ==
    \E i, j \in 1 .. Len(graphNodes) :
        /\ i # j
        /\ graphNodes[i].isExpanded /\ graphNodes[j].isExpanded
        /\ \E k \in 1 .. Len(graphLinks) :
               /\ graphLinks[k].source = graphNodes[i].id
               /\ graphLinks[k].target = graphNodes[j].id

\* C14: every call that passed the guard eventually returns, and the step in
\* which it returns, after success or failure, leaves its address out of
\* loadingNodes; an address is in loadingNodes only while a call for it is
\* outstanding, and every mark is eventually cleared.
C14_InFlightMarkIsCleared ==
    /\ \A c \in Calls : calls[c].active ~> ~calls[c].active
    /\ \A a \in Addresses : (a \in loadingNodes) ~> (a \notin loadingNodes)
    /\ [](\A a \in loadingNodes : Outstanding(a) # {})
    /\ [][ \A c \in Calls :
              Returns(c) => /\ calls[c].address \notin loadingNodes'
                            /\ ~calls'[c].active ]_vars

\* One call has returned after a success and one after a failure, and no
\* address is marked in flight.
C14_Witness ==
    /\ fetchCount >= 2
    /\ \A c \in Calls : ~calls[c].active
    /\ graphNodes # <<>>
    /\ \E k \in Hooks : error[k] \in ErrorMessages
    /\ loadingNodes = {}

AllAddresses == Addresses \cup {ShortAddress}
AllResponses == Responses \cup PagedResponses \cup PanelResponses

\* The call that LoadAddressData has just placed in the first free slot.
Started(c) == ~calls[c].active /\ calls'[c].active

\* C15: a first-page fetch at offset 0 that returns a page gives the node
\* loadedTransactions = currentOffset = the page length and
\* hasMoreTransactions = (page length < n_tx); a loadMore call fetches at the
\* node's currentOffset with the page size 10, and when it succeeds the
\* node's loadedTransactions grows by the page length, its currentOffset is
\* the fetch offset plus the page length and hasMoreTransactions says
\* whether that is below n_tx.
C15_PaginationByPages ==
    [][ /\ \A a \in AllAddresses, c \in Calls :
              (LoadMoreTransactions(a) /\ Started(c)) =>
                 /\ calls'[c].isLoadMore
                 /\ calls'[c].address = a
                 /\ calls'[c].limit = DEFAULT_TRANSACTION_LIMIT
                 /\ calls'[c].offset = GetNode(graphNodes, a).currentOffset
        /\ \A c \in Calls, data \in AllResponses :
              FetchSucceeds(c, data) =>
                 LET a == calls[c].address
                     n == Len(data.txs)
                 IN  IF calls[c].isLoadMore
                     THEN HasNode(graphNodes, a) =>
                            /\ GetNode(graphNodes', a).loadedTransactions =
                                  GetNode(graphNodes, a).loadedTransactions + n
                            /\ GetNode(graphNodes', a).currentOffset =
                                  calls[c].offset + n
                            /\ GetNode(graphNodes', a).hasMoreTransactions =
                                  (calls[c].offset + n < data.n_tx)
                     ELSE /\ calls[c].offset = 0
                          /\ GetNode(graphNodes', a).loadedTransactions = n
                          /\ GetNode(graphNodes', a).currentOffset = n
                          /\ GetNode(graphNodes', a).hasMoreTransactions =
                                (n < data.n_tx)
                          /\ GetNode(graphNodes', a).transactionCount = data.n_tx
      ]_vars

\* Three pages (10, 10 and 5 transactions) of an address with 25 have been
\* merged: the node's cursor is 25/25 and nothing more is to load.
C15_Witness ==
    /\ fetchCount = 3
    /\ HasNode(graphNodes, AddressA)
    /\ GetNode(graphNodes, AddressA).transactionCount = 25
    /\ GetNode(graphNodes, AddressA).loadedTransactions = 25
    /\ GetNode(graphNodes, AddressA).currentOffset = 25
    /\ ~GetNode(graphNodes, AddressA).hasMoreTransactions

\* C16: after every successful fetch for an address, that address's node has
\* currentOffset = loadedTransactions and hasMoreTransactions =
\* (currentOffset < transactionCount), with the transactionCount the node
\* stores.
C16_CursorSteadyState ==
    [][ \A c \in Calls, data \in AllResponses :
          (/\ FetchSucceeds(c, data)
           /\ HasNode(graphNodes', calls[c].address)
           /\ "transactionCount" \in DOMAIN GetNode(graphNodes', calls[c].address)) =>
             LET node == GetNode(graphNodes', calls[c].address)
             IN  /\ node.currentOffset = node.loadedTransactions
                 /\ node.hasMoreTransactions =
                       (node.currentOffset < node.transactionCount)
      ]_vars

\* C17: the pagination cursor and the expanded flag of a node that stays in
\* the graph change only in a step in which a loadInitial, expand or
\* loadMore fetch for that node's address succeeds.
C17_CursorOwnedByCoordinator ==
    [][ \A i \in 1 .. Len(graphNodes) :
          LET id == graphNodes[i].id
          IN  (/\ HasNode(graphNodes', id)
               /\ \/ GetNode(graphNodes', id).loadedTransactions #
                        graphNodes[i].loadedTransactions
                  \/ GetNode(graphNodes', id).currentOffset #
                        graphNodes[i].currentOffset
                  \/ GetNode(graphNodes', id).hasMoreTransactions #
                        graphNodes[i].hasMoreTransactions
                  \/ GetNode(graphNodes', id).isExpanded # graphNodes[i].isExpanded)
              => \E c \in Calls, data \in AllResponses :
                    calls[c].address = id /\ FetchSucceeds(c, data)
      ]_vars

\* C18: the step in which the fetch of a loadInitial, expand or loadMore
\* call fails records an error message for the calling component and leaves
\* every node and every link as it was; the step that started the call
\* (other than the clearGraph of a search) left them as they were too.
C18_FailureLeavesGraphUntouched ==
    [][ \A c \in Calls :
          /\ (\E m \in ErrorMessages : FetchFails(c, m))
                => /\ graphNodes' = graphNodes
                   /\ graphLinks' = graphLinks
                   /\ error'[calls[c].hook] \in ErrorMessages
          /\ (/\ ~calls[c].active
              /\ calls'[c].active
              /\ ~(\E a \in AllAddresses : HandleSearch(a)))
                => /\ graphNodes' = graphNodes
                   /\ graphLinks' = graphLinks
      ]_vars

\* A call has failed and recorded its error while the graph holds nodes and
\* links.
C18_Witness ==
    /\ \E h \in Hooks : error[h] \in ErrorMessages
    /\ Len(graphNodes) > 1
    /\ Len(graphLinks) > 0

\* A node of the graph whose expanded flag is set.
IsExpanded(nodes, id) == HasNode(nodes, id) /\ GetNode(nodes, id).isExpanded

\* C19: a node comes to have its expanded flag set only in a step in which
\* a first-page (not load-more) fetch for its own address succeeds; so no
\* failure, skipped call, load-more page or balance fetch sets the flag, and
\* a counterpart node enters the graph with the flag cleared.
C19_ExpandedOnlyAfterFirstPage ==
    [][ \A id \in {graphNodes'[i].id : i \in 1 .. Len(graphNodes')} :
          (IsExpanded(graphNodes', id) /\ ~IsExpanded(graphNodes, id))
            => \E c \in Calls, data \in AllResponses :
                  /\ calls[c].address = id
                  /\ ~calls[c].isLoadMore
                  /\ FetchSucceeds(c, data)
      ]_vars

\* An expanded node next to a counterpart that has received a load-more page
\* and is not expanded.
C19_Witness ==
    /\ \E i \in 1 .. Len(graphNodes) : graphNodes[i].isExpanded
    /\ \E i \in 1 .. Len(graphNodes) :
          ~graphNodes[i].isExpanded /\ graphNodes[i].loadedTransactions > 0

\* The nodes that a step adds to the graph, other than the node of address.
NewCounterparts(address) ==
    {i \in 1 .. Len(graphNodes') :
        graphNodes'[i].id # address /\ ~HasNode(graphNodes, graphNodes'[i].id)}

\* The currentLevel that expandNode was called with, for a call it made.
CurrentLevelOf(c) == calls[c].level - 1

\* C20: when the fetch of expandNode(address, currentLevel) succeeds, every
\* counterpart node the step adds has level currentLevel + 1, loadedTransactions
\* 0 and currentOffset 0; when the fetch of loadInitialAddress(address)
\* succeeds, the node of address has level 0 and every counterpart node the
\* step adds has level 1 and the same zeroed cursor.
C20_CounterpartLevels ==
    [][ \A c \in Calls, data \in AllResponses :
          (FetchSucceeds(c, data) /\ ~calls[c].isLoadMore)
            => /\ \A i \in NewCounterparts(calls[c].address) :
                    /\ graphNodes'[i].loadedTransactions = 0
                    /\ graphNodes'[i].currentOffset = 0
                    /\ graphNodes'[i].level =
                          IF calls[c].hook = "HomePage" THEN 1
                          ELSE CurrentLevelOf(c) + 1
               /\ calls[c].hook = "HomePage"
                    => GetNode(graphNodes', calls[c].address).level = 0
      ]_vars

\* The (source, target, txHash) triples of the stored links.
StoredTriples(links) == {LinkTriple(links[i]) : i \in 1 .. Len(links)}

\* C21: addLinks of a batch free of internal duplicates appends, in order,
\* exactly the links of the batch whose (source, target, txHash) triple is
\* not the triple of a stored link: a link is dropped only if all three
\* components equal those of a stored link, and every other link is stored.
C21_DuplicateMeansSameTriple ==
    [][ \A batch \in LinkBatches :
          StoreAddLinks(batch)
            => graphLinks' =
                 graphLinks \o SelectSeq(batch,
                     LAMBDA l : LinkTriple(l) \notin StoredTriples(graphLinks))
      ]_vars

\* The node of address has nothing more to load.
NothingMore(address) ==
    HasNode(graphNodes, address) /\ ~GetNode(graphNodes, address).hasMoreTransactions

\* C22: loadMoreTransactions(address) for an address that has no node, or
\* whose node has hasMoreTransactions = false, issues no fetch and leaves the
\* graph, the in-flight set, the error state and the outstanding calls as
\* they were.
C22_LoadMoreNoOp ==
    [][ \A a \in Addresses :
          (LoadMoreTransactions(a) /\ (~HasNode(graphNodes, a) \/ NothingMore(a)))
            => UNCHANGED clientVars
      ]_vars

\* A node has loaded all its transactions, no call is outstanding and a
\* further fetch could still be issued.
C22_Witness ==
    /\ \E a \in Addresses : NothingMore(a) /\ a \notin loadingNodes
    /\ \A c \in Calls : ~calls[c].active
    /\ fetchCount < MaxFetches

\* An address that is not empty and has 26 to 35 characters.
WellFormed(a) == a # "" /\ Len(a) >= 26 /\ Len(a) <= 35

\* The step issues exactly one fetch: one call starts, for address a at
\* level 0 and offset 0, it is not a load-more call, and no other call
\* changes.
IssuesFirstPageFetch(a) ==
    /\ fetchCount' = fetchCount + 1
    /\ \E c \in Calls :
          /\ Started(c)
          /\ calls'[c].address = a
          /\ calls'[c].level = 0
          /\ calls'[c].offset = 0
          /\ ~calls'[c].isLoadMore
          /\ \A d \in Calls \ {c} : calls'[d] = calls[d]

\* C23 (as amended): loadInitialAddress with an empty address or one shorter
\* than 26 or longer than 35 characters sets the format error and changes
\* nothing else (no fetch, no in-flight mark, the graph as it was); with a
\* well-formed address that is not marked in-flight it marks the address and
\* issues exactly one fetch, at offset 0 for level 0.
C23_LoadInitialValidates ==
    [][ \A a \in TypedAddresses :
          LoadInitialAddress(a) =>
             IF WellFormed(a)
             THEN a \notin loadingNodes
                    => /\ IssuesFirstPageFetch(a)
                       /\ a \in loadingNodes'
                       /\ UNCHANGED <<graphNodes, graphLinks>>
             ELSE /\ error' = [error EXCEPT
                                 !["HomePage"] = "Invalid Bitcoin address format"]
                  /\ UNCHANGED <<storeVars, isLoading, calls, fetchCount>>
      ]_vars

\* A call for a 26-character address and a call for a 35-character address
\* are outstanding, after the format error had been set.
C23_Witness ==
    /\ \E c \in Calls : calls[c].active /\ calls[c].address = AddressOfLength(26)
                          /\ calls[c].hook = "HomePage"
    /\ \E c \in Calls : calls[c].active /\ calls[c].address = AddressOfLength(35)
    /\ loadingNodes = {AddressOfLength(26), AddressOfLength(35)}

\* C23 as stated: in every state, loadInitialAddress with a well-formed
\* address issues a fetch (while a call slot is free).
C23_ValidAddressAlwaysFetches ==
    \A a \in TypedAddresses :
        (WellFormed(a) /\ FreeCalls # {} /\ fetchCount < MaxFetches)
           => ENABLED (LoadInitialAddress(a) /\ fetchCount' = fetchCount + 1)


\* C29: when a load of the page fails with the rate limiter's message, the
\* search bar shows a countdown, and while the countdown runs neither the
\* form nor the sample button changes anything.
C29_CooldownAfterRateLimit ==
    [][/\ \A c \in Calls, m \in ErrorMessages :
             (calls[c].hook = "HomePage" /\ FetchFails(c, m)) => countdown' > 0
       /\ countdown > 0 =>
             \A a \in SearchTexts :
                 (HandleSubmit(a) \/ LoadSampleAddress) => UNCHANGED vars]_vars

\* The step is an explicit reset: clearGraph, alone or as part of a search.
IsReset == ClearGraph \/ \E a \in Addresses \cup {ShortAddress} : HandleSearch(a)

\* C33: between resets the graph only grows: a step that is not a reset
\* (the start of a load, and its success or failure) keeps every stored link
\* as it is and where it is and keeps every node in the graph at its place;
\* clearGraph empties nodes, links, selection and the in-flight set.
C33_GraphOnlyGrows ==
    [][ /\ ~IsReset =>
              /\ Len(graphLinks') >= Len(graphLinks)
              /\ SubSeq(graphLinks', 1, Len(graphLinks)) = graphLinks
              /\ Len(graphNodes') >= Len(graphNodes)
              /\ \A i \in 1 .. Len(graphNodes) : graphNodes'[i].id = graphNodes[i].id
        /\ ClearGraph =>
              /\ graphNodes' = <<>>
              /\ graphLinks' = <<>>
              /\ selectedNode' = Null
              /\ loadingNodes' = {}
      ]_vars

\* Two pages have been merged, one after the other, and a later load failed.
C33_Witness ==
    /\ Len(graphLinks) >= 2
    /\ Len(graphNodes) >= 3
    /\ IsExpanded(graphNodes, AddressA)
    /\ IsExpanded(graphNodes, AddressB)
    /\ \E h \in Hooks : error[h] \in ErrorMessages

\* C34: a successful first-page fetch made by expandNode(address,
\* currentLevel) for a node that is in the graph at level currentLevel leaves
\* that node's level as it is, and a successful fetch leaves every node
\* other than the fetched address (its counterparts among them) as it is.
C34_MergeKeepsFields ==
    [][ \A c \in Calls, data \in AllResponses :
          FetchSucceeds(c, data) =>
             /\ (/\ calls[c].hook = "BlockchainGraph"
                 /\ HasNode(graphNodes, calls[c].address)
                 /\ GetNode(graphNodes, calls[c].address).level = CurrentLevelOf(c))
                   => GetNode(graphNodes', calls[c].address).level =
                         GetNode(graphNodes, calls[c].address).level
             /\ \A i \in 1 .. Len(graphNodes) :
                   graphNodes[i].id # calls[c].address => graphNodes'[i] = graphNodes[i]
      ]_vars

\* C37: a fetch that was outstanding when clearGraph ran adds nothing to the
\* reset graph.  A call that is outstanding while its address is not marked
\* in-flight is such a fetch (only a reset, or the end of a call that a reset
\* let in, takes the mark of an outstanding call away), so when its fetch
\* succeeds the nodes and links stay as they are.
C37_StaleFetchAddsNothing ==
    [][ \A c \in Calls, data \in AllResponses :
          (FetchSucceeds(c, data) /\ calls[c].address \notin loadingNodes) =>
              /\ graphNodes' = graphNodes
              /\ graphLinks' = graphLinks
      ]_vars

\* C38: every stored link has its source and its target among the nodes of
\* the graph, and no link goes from an address to itself.
C38_LinksJoinStoredNodes ==
    \A i \in 1 .. Len(graphLinks) :
        /\ HasNode(graphNodes, graphLinks[i].source)
        /\ HasNode(graphNodes, graphLinks[i].target)
        /\ graphLinks[i].source # graphLinks[i].target

\* C39: the isLoading flag of a hook instance is set whenever a fetch that
\* was started through that instance is outstanding.
C39_LoadingWhileOutstanding ==
    \A c \in Calls : calls[c].active => isLoading[calls[c].hook]

\* A Load More fetch of a stored node returns with data.
LoadMoreReturns(c, data) ==
    /\ FetchSucceeds(c, data)
    /\ calls[c].isLoadMore
    /\ HasNode(graphNodes, calls[c].address)

\* C40: every Load More fetch that returns with a page, an empty one
\* included, either strictly increases the currentOffset of its node or sets
\* its hasMoreTransactions to false.
C40_LoadMoreMakesProgress ==
    [][ \A c \in Calls, data \in EmptyPageResponses :
           LoadMoreReturns(c, data) =>
              \/ GetNode(graphNodes', calls[c].address).currentOffset
                    > GetNode(graphNodes, calls[c].address).currentOffset
              \/ ~GetNode(graphNodes', calls[c].address).hasMoreTransactions
      ]_vars
====
